---- MODULE Spec2Model ----
(***************************************************************************)
(* A model of eleventy-asset-hash: assetHash() of src/src/asset-hash.ts    *)
(* and the transform of src/mod.ts.                                        *)
(*                                                                         *)
(* Strings are sequences of characters.  A character is a record           *)
(* [c, of, i]: a literal character has c = the character, of = <<>> and    *)
(* i = 0; the k-th character of the checksum of a buffer b has c = "#",    *)
(* of = b and i = k, which makes computeChecksum collision free.           *)
(* JavaScript string indices are 0-based: index n of a JavaScript string   *)
(* is element n + 1 of the sequence.                                       *)
(***************************************************************************)
EXTENDS Integers, Sequences, FiniteSets, TLC

VARIABLES
  pc,            \* position of assetHash: scan, loop, phaseA, phaseB, done, failed (transform of mod.ts: transform, done)
  onMissing,     \* option onMissing
  pathPrefix,    \* option pathPrefix
  maxLength,     \* option maxLength
  files,         \* the file system: path -> content, for the files that exist
  order,         \* iteration order of fileIndex / dependencyMap (insertion order)
  fileIndex,     \* Set fileIndex
  scanPos,       \* number of files of the index already scanned (loop of line 141)
  missing,       \* Set missing
  warnings,      \* console.warn calls so far
  error,         \* the Error thrown by resolve, or <<>>
  referenceMap,  \* Map referenceMap
  dependencyMap, \* Map dependencyMap
  hashCache,     \* Map hashCache (settled value of each promise)
  smallestFile,  \* smallestFile of the current iteration
  smallestLoop,  \* smallestLoop of the current iteration (the unit in processLoop)
  tasks,         \* the Phase A callbacks that are suspended: member -> its locals
  contents,      \* contents of processLoop: member -> Phase A result
  requests,      \* history: the calls of hashFileWithCache, in order
  written,       \* members of the current unit already written by line 210
  log,           \* history: the events of the run, in order
  snapshot,      \* history: the file system the run started from
  twin           \* a second run of the same steps on a second file system

vars == <<pc, onMissing, pathPrefix, maxLength, files, order, fileIndex,
          scanPos, missing, warnings, error, referenceMap, dependencyMap, hashCache,
          smallestFile, smallestLoop, tasks, contents, requests, written, log,
          snapshot, twin>>

(***************************************************************************)
(* Bounds of the model.                                                    *)
(***************************************************************************)
MaxRefs == 2        \* references per file in the graph family of initial states
MaxTextRefs == 2    \* references in the rich file of the text family
DigestLen == 2      \* characters of a checksum
MaxLossRefs == 3    \* references in the rich file of the family with file loss
MaxUnlinks == 1     \* files that disappear during a run

(***************************************************************************)
(* Characters and strings.                                                 *)
(***************************************************************************)
Lit(ch) == [c |-> ch, of |-> <<>>, i |-> 0]

Str(s) == [k \in DOMAIN s |-> Lit(s[k])]

Range(s) == {s[k] : k \in DOMAIN s}

Min(a, b) == IF a < b THEN a ELSE b

\* String.prototype.startsWith
StartsWith(s, prefix) ==
  /\ Len(prefix) <= Len(s)
  /\ SubSeq(s, 1, Len(prefix)) = prefix

\* UTF-16 code units of the characters the model uses
CharCode ==
  [ch \in {" ", "#", "&", ".", "/", "<", "=", ">", "?", "a", "b", "c", "d", "h",
           "m", "p", "q", "s", "v", "x"} |->
     CASE ch = " " -> 32 [] ch = "#" -> 35 [] ch = "&" -> 38 [] ch = "." -> 46
       [] ch = "/" -> 47 [] ch = "<" -> 60 [] ch = "=" -> 61 [] ch = ">" -> 62
       [] ch = "?" -> 63 [] ch = "a" -> 97 [] ch = "b" -> 98 [] ch = "c" -> 99
       [] ch = "d" -> 100 [] ch = "h" -> 104 [] ch = "m" -> 109
       [] ch = "p" -> 112 [] ch = "q" -> 113 [] ch = "s" -> 115
       [] ch = "v" -> 118 [] ch = "x" -> 120]

\* the order of Array.prototype.sort() without a comparator, on strings
RECURSIVE StringLess(_, _)
StringLess(s, t) ==
  IF t = <<>> THEN FALSE
  ELSE IF s = <<>> THEN TRUE
  ELSE IF Head(s) = Head(t) THEN StringLess(Tail(s), Tail(t))
  ELSE CharCode[Head(s).c] < CharCode[Head(t).c]

\* [...set].sort()
RECURSIVE SortStrings(_)
SortStrings(set) ==
  IF set = {} THEN <<>>
  ELSE LET least == CHOOSE s \in set : \A t \in set \ {s} : StringLess(s, t)
       IN <<least>> \o SortStrings(set \ {least})

\* Array.prototype.join("")
RECURSIVE Concat(_)
Concat(seqs) == IF seqs = <<>> THEN <<>> ELSE Head(seqs) \o Concat(Tail(seqs))

(***************************************************************************)
(* pathRegex (lines 123-131).  The class [!$%(-;@-[\]_a-z~] holds ".", "/" *)
(* and the letters; "?", "=", "&", " ", "<", ">" and "#" are outside it.   *)
(* \w holds the letters.                                                   *)
(***************************************************************************)
IsUrlChar(ch) == ch.c \in {".", "/", "a", "b", "c", "d", "h", "m", "p", "q", "s", "v", "x"}

IsWordChar(ch) == ch.c \in {"a", "b", "c", "d", "h", "m", "p", "q", "s", "v", "x"}

\* \.{0,2}/(?!/)[url]*\.\w+ matched against a whole run of URL characters
MatchesPath(run) ==
  \E dots \in 0..2 :
    /\ Len(run) >= dots + 3
    /\ \A k \in 1..dots : run[k].c = "."
    /\ run[dots + 1].c = "/"
    /\ run[dots + 2].c # "/"
    /\ \E p \in (dots + 2)..(Len(run) - 1) :
         /\ run[p].c = "."
         /\ \A k \in (p + 1)..Len(run) : IsWordChar(run[k])

\* The lookbehind and the lookahead each need one character outside the
\* class, and every character the pattern consumes is inside it, so a match
\* is a maximal run of URL characters with a character on both sides.
RECURSIVE RunEnd(_, _)
RunEnd(content, from) ==
  IF from = Len(content) \/ ~IsUrlChar(content[from + 1]) THEN from
  ELSE RunEnd(content, from + 1)

\* content.matchAll(pathRegex): the matches left to right, as
\* [index |-> match.index, text |-> match[0]]
RECURSIVE MatchAllFrom(_, _)
MatchAllFrom(content, from) ==
  IF from > Len(content) THEN <<>>
  ELSE IF ~IsUrlChar(content[from]) THEN MatchAllFrom(content, from + 1)
  ELSE LET e == RunEnd(content, from)
           run == SubSeq(content, from, e)
       IN IF from > 1 /\ e < Len(content) /\ MatchesPath(run)
          THEN <<[index |-> from - 1, text |-> run]>> \o MatchAllFrom(content, e + 1)
          ELSE MatchAllFrom(content, e + 1)

matchAll(content) == MatchAllFrom(content, 1)

(***************************************************************************)
(* node:path                                                               *)
(***************************************************************************)
\* String.prototype.split("/") from the k-th character on; seg is the segment
\* being read, acc the segments read
RECURSIVE SplitFrom(_, _, _, _)
SplitFrom(s, k, seg, acc) ==
  IF k > Len(s) THEN Append(acc, seg)
  ELSE IF s[k].c = "/" THEN SplitFrom(s, k + 1, <<>>, Append(acc, seg))
  ELSE SplitFrom(s, k + 1, Append(seg, s[k]), acc)

\* the segments of a path: the text between its slashes
SplitSlash(s) == SplitFrom(s, 1, <<>>, <<>>)

RECURSIVE NormalizeSegments(_, _)
NormalizeSegments(segs, acc) ==
  IF segs = <<>> THEN acc
  ELSE LET seg == Head(segs)
       IN IF seg = <<>> \/ seg = Str(<<".">>)
          THEN NormalizeSegments(Tail(segs), acc)
          ELSE IF seg = Str(<<".", ".">>) /\ acc # <<>> /\ acc[Len(acc)] # Str(<<".", ".">>)
          THEN NormalizeSegments(Tail(segs), SubSeq(acc, 1, Len(acc) - 1))
          ELSE NormalizeSegments(Tail(segs), Append(acc, seg))

RECURSIVE JoinSlash(_)
JoinSlash(segs) ==
  IF Len(segs) = 1 THEN Head(segs)
  ELSE Head(segs) \o Str(<<"/">>) \o JoinSlash(Tail(segs))

\* nodePath.join(a, b) for relative a
nodePathJoin(a, b) ==
  LET segs == NormalizeSegments(SplitSlash(a \o Str(<<"/">>) \o b), <<>>)
  IN IF segs = <<>> THEN Str(<<".">>) ELSE JoinSlash(segs)

\* nodePath.dirname(path)
nodePathDirname(path) ==
  LET segs == SplitSlash(path)
  IN IF Len(segs) = 1 THEN Str(<<".">>) ELSE JoinSlash(SubSeq(segs, 1, Len(segs) - 1))

(***************************************************************************)
(* Options and the file system the run starts from.                        *)
(***************************************************************************)
Null == <<>>                      \* null (no path, no hash)

Infinity == 1000000               \* the default of maxLength

directory == Str(<<"d">>)         \* option directory

param == Str(<<"v">>)             \* option param (default)

\* A glob "**/*.{e1,e2}" is modelled by the set of its extensions.
include == {"h"}                  \* option include: **/*.h

exclude == {}                     \* option exclude (default)

includeAssets == {"h", "c"}       \* option includeAssets: **/*.{h,c}

excludeAssets == {}               \* option excludeAssets (default)

forceDotSlash(path) ==
  IF StartsWith(path, Str(<<"/">>)) THEN Str(<<".">>) \o path ELSE Str(<<".", "/">>) \o path

forceEndSlash(path) ==
  IF path # <<>> /\ path[Len(path)].c = "/" THEN path ELSE path \o Str(<<"/">>)

cwd == forceEndSlash(forceDotSlash(directory))

PathA == Str(<<"d", "/", "a", ".", "h">>)

PathB == Str(<<"d", "/", "b", ".", "h">>)

PathC == Str(<<"d", "/", "c", ".", "h">>)

PathS == Str(<<"d", "/", "s", ".", "c">>)

PathX == Str(<<"d", "/", "x", ".", "p">>)

\* the files that exist when the run starts
DiskPaths == {PathA, PathB, PathC, PathS, PathX}

\* the extension of a path: the characters after its last "."
Extension(path) ==
  LET dotsAt == {k \in DOMAIN path : path[k].c = "."}
  IN IF dotsAt = {} THEN <<>>
     ELSE LET last == CHOOSE k \in dotsAt : \A j \in dotsAt : j <= k
          IN [k \in 1..(Len(path) - last) |-> path[last + k].c]

\* micromatch.isMatch(path, globs joined to cwd, {ignore})
isMatch(path, globs, ignore) ==
  /\ StartsWith(path, nodePathJoin(cwd, <<>>) \o Str(<<"/">>))
  /\ \E e \in globs : Extension(path) = <<e>>
  /\ ~\E e \in ignore : Extension(path) = <<e>>

\* fastGlob.sync(globs, {cwd, ignore}) mapped through nodePath.join(directory, .)
fastGlobSync(globs, ignore) == {p \in DiskPaths : isMatch(p, globs, ignore)}

assetIndex == fastGlobSync(includeAssets, excludeAssets)

(***************************************************************************)
(* Checksums (lines 37-66).                                                *)
(***************************************************************************)
\* option computeChecksum: a collision-free digest of DigestLen characters
computeChecksum(buffer) == [k \in 1..DigestLen |-> [c |-> "#", of |-> buffer, i |-> k]]

hasMaxLength == maxLength # Infinity /\ maxLength > 0

hashContentsWhole(buffer) == computeChecksum(buffer)

hashContents(buffer) ==
  LET hash == computeChecksum(buffer)
  IN IF ~hasMaxLength THEN hash ELSE SubSeq(hash, 1, Min(Len(hash), maxLength))

hashFile(path, disk) ==
  IF path \notin DOMAIN disk THEN Null ELSE hashContents(disk[path])

hashFileWithoutCache(path, cache, disk) ==
  [hash |-> hashFile(path, disk), cache |-> cache, started |-> TRUE]

\* returns the hash, the cache after the call and whether hashFile was started
hashFileWithCache(path, cache, disk) ==
  IF path \in DOMAIN cache
  THEN [hash |-> cache[path], cache |-> cache, started |-> FALSE]
  ELSE LET computed == hashFile(path, disk)
       IN [hash |-> computed, cache |-> cache @@ (path :> computed), started |-> TRUE]

(***************************************************************************)
(* resolve (lines 92-117).  Returns the resolved path or Null, the set     *)
(* missing after the call, the warnings it logged and the Error it threw   *)
(* (Null when it returned normally).                                       *)
(***************************************************************************)
Message(resultingPath, path) == [missing |-> resultingPath, referencedIn |-> path]

ResultingPathUnstripped(assetPath, path) ==
  IF StartsWith(assetPath, pathPrefix)
  THEN nodePathJoin(cwd, Str(<<"/">>) \o assetPath)
  ELSE IF StartsWith(assetPath, Str(<<".">>))
  THEN nodePathJoin(nodePathDirname(path), assetPath)
  ELSE Null

\* lines 93-98: the path a reference names, Null for an unrecognized shape
ResultingPath(assetPath, path) ==
  LET isAbsolute == StartsWith(assetPath, pathPrefix)
      isRelative == StartsWith(assetPath, Str(<<".">>))
  IN IF ~isAbsolute /\ ~isRelative THEN Null
     ELSE IF isAbsolute
     THEN nodePathJoin(cwd, Str(<<"/">>) \o SubSeq(assetPath, Len(pathPrefix) + 1, Len(assetPath)))
     ELSE nodePathJoin(nodePathDirname(path), assetPath)

\* lines 99-116 with resultingPath computed
resolveNeverThrows(resultingPath, path, miss) ==
  LET none == [path |-> Null, missing |-> miss, warned |-> <<>>, thrown |-> Null]
  IN IF resultingPath = Null THEN none
     ELSE IF resultingPath \in assetIndex THEN [none EXCEPT !.path = resultingPath]
     ELSE IF onMissing = "ignore" THEN none
     ELSE IF resultingPath \in miss THEN none
     ELSE IF ~isMatch(resultingPath, includeAssets, excludeAssets)
     THEN [none EXCEPT !.missing = miss \cup {resultingPath}]
     ELSE [none EXCEPT !.missing = miss \cup {resultingPath},
                       !.warned = <<Message(resultingPath, path)>>]

resolveUnindexed(resultingPath, path, miss) ==
  [path |-> resultingPath, missing |-> miss, warned |-> <<>>, thrown |-> Null]

resolveRepeating(resultingPath, path, miss) ==
  LET none == [path |-> Null, missing |-> miss, warned |-> <<>>, thrown |-> Null]
  IN IF resultingPath = Null THEN none
     ELSE IF resultingPath \in assetIndex THEN [none EXCEPT !.path = resultingPath]
     ELSE IF onMissing = "ignore" THEN none
     ELSE IF ~isMatch(resultingPath, includeAssets, excludeAssets)
     THEN [none EXCEPT !.missing = miss \cup {resultingPath}]
     ELSE IF onMissing = "error"
     THEN [none EXCEPT !.missing = miss \cup {resultingPath},
                       !.thrown = <<Message(resultingPath, path)>>]
     ELSE [none EXCEPT !.missing = miss \cup {resultingPath},
                       !.warned = <<Message(resultingPath, path)>>]

\* lines 99-116: the index lookup and the policy, resultingPath being the
\* value lines 93-98 computed
resolveResulting(resultingPath, path, miss) ==
  LET none == [path |-> Null, missing |-> miss, warned |-> <<>>, thrown |-> Null]
  IN IF resultingPath = Null THEN none
     ELSE IF resultingPath \in assetIndex THEN [none EXCEPT !.path = resultingPath]
     ELSE IF onMissing = "ignore" THEN none
     ELSE IF resultingPath \in miss THEN none
     ELSE IF ~isMatch(resultingPath, includeAssets, excludeAssets)
     THEN [none EXCEPT !.missing = miss \cup {resultingPath}]
     ELSE IF onMissing = "error"
     THEN [none EXCEPT !.missing = miss \cup {resultingPath},
                       !.thrown = <<Message(resultingPath, path)>>]
     ELSE [none EXCEPT !.missing = miss \cup {resultingPath},
                       !.warned = <<Message(resultingPath, path)>>]

resolve(assetPath, path, miss) ==
  resolveResulting(ResultingPath(assetPath, path), path, miss)

(***************************************************************************)
(* The body of the loop of lines 141-156 for one file: the matches of      *)
(* content from the k-th on.  st = [references, dependencies, missing,     *)
(* warned, thrown].                                                        *)
(***************************************************************************)
HasParamsOneLate(content, endIndex) ==
  endIndex + 2 <= Len(content) /\ content[endIndex + 2].c = "?"

\* line 150: content[endIndex] == "?"
HasParams(content, endIndex) ==
  endIndex + 1 <= Len(content) /\ content[endIndex + 1].c = "?"

RECURSIVE ScanMatches(_, _, _, _, _)
ScanMatchNoSelf(matches, k, path, content, st, r) ==
  LET match == matches[k]
      seen == [st EXCEPT !.missing = r.missing, !.warned = st.warned \o r.warned]
      endIndex == match.index + Len(match.text)
  IN IF r.thrown # Null THEN [seen EXCEPT !.thrown = r.thrown]
     ELSE IF r.path = Null \/ r.path = path
     THEN ScanMatches(matches, k + 1, path, content, seen)
     ELSE ScanMatches(matches, k + 1, path, content,
            [seen EXCEPT
               !.references = Append(st.references,
                  [path |-> r.path, endIndex |-> endIndex,
                   hasParams |-> HasParams(content, endIndex)]),
               !.dependencies =
                  IF r.path \in fileIndex THEN st.dependencies \cup {r.path}
                  ELSE st.dependencies])

\* lines 143-154 for the k-th match, r being what resolve returned for it
ScanMatch(matches, k, path, content, st, r) ==
  LET match == matches[k]
      seen == [st EXCEPT !.missing = r.missing, !.warned = st.warned \o r.warned]
      endIndex == match.index + Len(match.text)
      hasParams == HasParams(content, endIndex)
  IN IF r.thrown # Null THEN [seen EXCEPT !.thrown = r.thrown]
     ELSE IF r.path = Null THEN ScanMatches(matches, k + 1, path, content, seen)
     ELSE ScanMatches(matches, k + 1, path, content,
            [seen EXCEPT
               !.references = Append(st.references,
                  [path |-> r.path, endIndex |-> endIndex, hasParams |-> hasParams]),
               !.dependencies =
                  IF r.path \in fileIndex THEN st.dependencies \cup {r.path}
                  ELSE st.dependencies])

ScanMatches(matches, k, path, content, st) ==
  IF k > Len(matches) THEN st
  ELSE ScanMatch(matches, k, path, content, st, resolve(matches[k].text, path, st.missing))

ScanFile(path, content, miss) ==
  ScanMatches(matchAll(content), 1, path, content,
    [references |-> <<>>, dependencies |-> {path}, missing |-> miss,
     warned |-> <<>>, thrown |-> Null])

(***************************************************************************)
(* insertQueryParams (lines 159-184).  The loop from position index (a     *)
(* position of the sequence, index + 1 of the code) on; returns the        *)
(* transformed content, the references left in the list (the code mutates  *)
(* the list it is given) and the cache.                                    *)
(***************************************************************************)
RemoveAt(s, k) == SubSeq(s, 1, k - 1) \o SubSeq(s, k + 1, Len(s))

\* transformed.slice(0, at) + insertion + transformed.slice(at)
Splice(target, at, insertion) ==
  SubSeq(target, 1, Min(at, Len(target))) \o insertion \o SubSeq(target, at + 1, Len(target))

OffsetAfterShort(offset, hash) == offset + Len(param) + Len(hash) + 1

\* line 181
OffsetAfter(offset, hash) == offset + Len(param) + Len(hash) + 2

\* lines 173-181 for the reference at st.index, h being what the call of
\* hashFileWithCache of line 172 returned
Inserted(st, reference, h) ==
  LET spliced == RemoveAt(st.references, st.index)
      insertion ==
        IF reference.hasParams
        THEN param \o Str(<<"=">>) \o h.hash \o Str(<<"&">>)
        ELSE Str(<<"?">>) \o param \o Str(<<"=">>) \o h.hash
      insertionIndex ==
        IF reference.hasParams THEN reference.endIndex + 1 ELSE reference.endIndex
      asked == Append(st.requests, [path |-> reference.path, hash |-> h.hash,
                                    started |-> h.started])
  IN IF h.hash = Null
     THEN [st EXCEPT !.references = spliced, !.cache = h.cache, !.requests = asked]
     ELSE [st EXCEPT !.transformed = Splice(@, insertionIndex, insertion),
                     !.references = spliced,
                     !.offset = OffsetAfter(@, h.hash),
                     !.cache = h.cache,
                     !.requests = asked]

\* The loop of lines 167-182 from the locals st = [transformed, references,
\* index, offset] on, until it has awaited hashFileWithCache budget times and
\* reaches the next await, or ends (done).  st.cache is hashCache and
\* st.requests the calls of hashFileWithCache made.
RECURSIVE InsertUpTo(_, _, _, _)
InsertUpTo(st, skip, disk, budget) ==
  IF st.index > Len(st.references) THEN [st EXCEPT !.done = TRUE]
  ELSE LET reference == [st.references[st.index] EXCEPT !.endIndex = @ + st.offset]
           shifted == [st.references EXCEPT ![st.index] = reference]
       IN IF reference.path \in skip
          THEN InsertUpTo([st EXCEPT !.references = shifted, !.index = @ + 1],
                          skip, disk, budget)
          ELSE IF budget = 0 THEN st
          ELSE InsertUpTo(Inserted([st EXCEPT !.references = shifted], reference,
                                   hashFileWithCache(reference.path, st.cache, disk)),
                          skip, disk, budget - 1)

\* the whole loop
InsertLoop(transformed, references, index, offset, skip, cache, disk) ==
  InsertUpTo([transformed |-> transformed, references |-> references, index |-> index,
              offset |-> offset, cache |-> cache, requests |-> <<>>, done |-> FALSE],
             skip, disk, Infinity)

insertQueryParams(content, references, skip, cache, disk) ==
  InsertLoop(content, references, 1, 0, skip, cache, disk)

(***************************************************************************)
(* Initial states: file systems and options the run can start from.        *)
(***************************************************************************)
\* a reference as it is written in a file: its text, and whether "?x" follows
RefSpec(text, q) == [text |-> Str(text), q |-> q]

RECURSIVE RefsText(_)
RefsText(refs) ==
  IF refs = <<>> THEN <<>>
  ELSE Head(refs).text \o (IF Head(refs).q THEN Str(<<"?", "x">>) ELSE <<>>)
         \o Str(<<" ">>) \o RefsText(Tail(refs))

\* a file: a tag character, then the references, each followed by a space
MakeContent(tag, refs) == <<Lit(tag)>> \o RefsText(refs)

SeqsUpTo(set, n) == UNION {[1..k -> set] : k \in 0..n}

Permutations3(set) == {s \in [1..Cardinality(set) -> set] : Range(s) = set}

\* relative references to the three indexed files, in a fixed order
GraphRefs(targets) ==
  LET all == <<RefSpec(<<".", "/", "a", ".", "h">>, FALSE),
               RefSpec(<<".", "/", "b", ".", "h">>, FALSE),
               RefSpec(<<".", "/", "c", ".", "h">>, FALSE)>>
  IN SelectSeq(all, LAMBDA r : r \in targets)

GraphTargets ==
  {RefSpec(<<".", "/", "a", ".", "h">>, FALSE),
   RefSpec(<<".", "/", "b", ".", "h">>, FALSE),
   RefSpec(<<".", "/", "c", ".", "h">>, FALSE)}

\* the texts of the text family
Texts ==
  {<<".", "/", "a", ".", "h">>,          \* indexed, the file itself
   <<".", "/", "b", ".", "h">>,          \* indexed
   <<".", "/", "s", ".", "c">>,          \* asset that is not indexed
   <<".", "/", "m", ".", "c">>,          \* no such file, matched by includeAssets
   <<".", "/", "x", ".", "p">>,          \* a file that includeAssets does not match
   <<"/", "b", ".", "h">>,               \* rooted
   <<"/", "p", "/", "b", ".", "h">>,     \* rooted under the prefix /p/
   <<"b", ".", "h">>}                    \* not matched by pathRegex

\* the texts that also occur with a query string behind them
QueryTexts ==
  {<<".", "/", "b", ".", "h">>, <<".", "/", "s", ".", "c">>, <<".", "/", "m", ".", "c">>}

TextChoices == {RefSpec(t, FALSE) : t \in Texts} \cup {RefSpec(t, TRUE) : t \in QueryTexts}

\* the policies and path prefixes of the text family
TextOptions ==
  {<<"ignore", Str(<<"/">>)>>, <<"warn", Str(<<"/">>)>>, <<"error", Str(<<"/">>)>>,
   <<"warn", Str(<<"/", "p", "/">>)>>}

NoTwin ==
  [start |-> <<>>, files |-> <<>>, referenceMap |-> <<>>, hashCache |-> <<>>,
   tasks |-> <<>>, contents |-> <<>>, finished |-> <<>>]

InitRun(fs, ord, policy, prefix) ==
  /\ pc = "scan"
  /\ onMissing = policy
  /\ pathPrefix = prefix
  /\ files = fs
  /\ order = ord
  /\ fileIndex = fastGlobSync(include, exclude)
  /\ scanPos = 0
  /\ missing = {}
  /\ warnings = <<>>
  /\ error = Null
  /\ referenceMap = <<>>
  /\ dependencyMap = <<>>
  /\ hashCache = <<>>
  /\ smallestFile = Null
  /\ smallestLoop = {}
  /\ tasks = <<>>
  /\ contents = <<>>
  /\ requests = <<>>
  /\ written = <<>>
  /\ log = <<>>
  /\ snapshot = fs

\* every reference graph over the three indexed files with at most MaxRefs
\* references per file, every iteration order of the index
GraphFiles ==
  {PathA :> MakeContent("<", GraphRefs(ta)) @@ PathB :> MakeContent("<", GraphRefs(tb))
     @@ PathC :> MakeContent("<", GraphRefs(tc)) @@ PathS :> Str(<<"s">>)
     @@ PathX :> Str(<<"x">>) :
   ta \in {t \in SUBSET GraphTargets : Cardinality(t) <= MaxRefs},
   tb \in {t \in SUBSET GraphTargets : Cardinality(t) <= MaxRefs},
   tc \in {t \in SUBSET GraphTargets : Cardinality(t) <= MaxRefs}}

\* one file with any list of at most MaxTextRefs references of any kind, one
\* file with at most one reference, every policy, a second path prefix
TextFiles ==
  {PathA :> MakeContent("<", ra) @@ PathB :> MakeContent("<", rb)
     @@ PathC :> MakeContent("<", <<>>) @@ PathS :> Str(<<"s">>)
     @@ PathX :> Str(<<"x">>) :
   ra \in SeqsUpTo(TextChoices, MaxTextRefs),
   rb \in {<<>>, <<RefSpec(<<".", "/", "a", ".", "h">>, FALSE)>>,
           <<RefSpec(<<".", "/", "m", ".", "c">>, FALSE)>>}}

InitGraph ==
  \E fs \in GraphFiles, ord \in Permutations3(fastGlobSync(include, exclude)) :
    InitRun(fs, ord, "warn", Str(<<"/">>)) /\ maxLength = Infinity

InitText ==
  \E fs \in TextFiles, options \in TextOptions :
    InitRun(fs, <<PathA, PathB, PathC>>, options[1], options[2]) /\ maxLength = Infinity

Init == (InitGraph \/ InitText) /\ twin = NoTwin

(***************************************************************************)
(* Lines 141-156: build referenceMap and dependencyMap, one file a step.   *)
(***************************************************************************)
AfterScanEarly(scanned) == "loop"

\* the main loop starts when the loop of line 141 has visited the whole index
AfterScan(scanned) == IF scanned = Len(order) THEN "loop" ELSE "scan"

\* the Error fs.readFile rejects with
ReadError(path) == [unreadable |-> path]

\* lines 142, 195: the file is gone, fs.readFile rejects and nothing catches it
ReadFailed(path) ==
  /\ pc' = "failed"
  /\ error' = <<ReadError(path)>>
  /\ log' = Append(log, [op |-> "reject", path |-> path, unit |-> {}])
  /\ UNCHANGED <<missing, warnings, referenceMap, dependencyMap, scanPos>>

\* the effect of the iteration for path, r being the result of its scan
Scanned(path, r) ==
  /\ missing' = r.missing
  /\ warnings' = warnings \o r.warned
  /\ IF r.thrown # Null
     THEN /\ pc' = "failed"
          /\ error' = r.thrown
          /\ UNCHANGED <<referenceMap, dependencyMap, scanPos>>
          /\ log' = Append(log, [op |-> "throw", path |-> path, unit |-> {}])
     ELSE /\ pc' = AfterScan(scanPos + 1)
          /\ error' = error
          /\ referenceMap' = referenceMap @@ (path :> r.references)
          /\ dependencyMap' = dependencyMap @@ (path :> r.dependencies)
          /\ scanPos' = scanPos + 1
          /\ log' = Append(log, [op |-> "scan", path |-> path,
                                 unit |-> {ref.path : ref \in Range(r.references)}])

Scan ==
  /\ pc = "scan"
  /\ scanPos < Len(order)
  /\ \E path \in {order[scanPos + 1]} :
       IF path \notin DOMAIN files
       THEN ReadFailed(path)
       ELSE Scanned(path, ScanFile(path, files[path], missing))
  /\ UNCHANGED <<onMissing, pathPrefix, files, order, fileIndex, hashCache,
                 smallestFile, smallestLoop, tasks, contents, requests, written>>

(***************************************************************************)
(* Lines 220-238: one iteration of the main loop up to processLoop.        *)
(***************************************************************************)
\* the keys of dependencyMap in iteration order
MapKeys == SelectSeq(order, LAMBDA p : p \in DOMAIN dependencyMap)

SmallestFromFirst(keys, k, file) == keys[1]

\* the loop of lines 223-228 from the k-th key on; file = smallestFile so far
RECURSIVE SmallestFrom(_, _, _)
SmallestFrom(keys, k, file) ==
  IF k > Len(keys) THEN file
  ELSE LET path == keys[k]
           dependencies == dependencyMap[path]
       IN IF file # Null /\ Cardinality(dependencies) >= Cardinality(dependencyMap[file])
          THEN SmallestFrom(keys, k + 1, file)
          ELSE IF Cardinality(dependencies) = 1 THEN path
          ELSE SmallestFrom(keys, k + 1, path)

ExpandLoopNot(loop, visited) == loop

\* lines 231-237: a for-of over a Set also visits the elements added while
\* it runs, so the loop ends when every member has been visited
RECURSIVE ExpandLoop(_, _)
ExpandLoop(loop, visited) ==
  IF loop \subseteq visited THEN loop
  ELSE LET dependency == CHOOSE d \in loop : d \notin visited
           subDependencies ==
             IF dependency \in DOMAIN dependencyMap THEN dependencyMap[dependency] ELSE {}
       IN ExpandLoop(loop \cup subDependencies, visited \cup {dependency})

StoreExpandedInCopy(map, file, loop) == map

\* line 226 binds smallestLoop to the Set held by the map, so what line 235
\* adds to it is added to the entry of smallestFile
StoreExpanded(map, file, loop) == [map EXCEPT ![file] = loop]

LoopExit ==
  /\ pc = "loop"
  /\ fileIndex = {} \/ MapKeys = <<>>
  /\ pc' = "done"
  /\ UNCHANGED <<onMissing, pathPrefix, files, order, fileIndex, scanPos, missing,
                 warnings, error, referenceMap, dependencyMap, hashCache,
                 smallestFile, smallestLoop, tasks, contents, requests, written, log>>

\* the set grew: it is stored (it is the Set object of the map) and the loop continues
LoopExpand ==
  /\ pc = "loop"
  /\ fileIndex # {} /\ MapKeys # <<>>
  /\ LET file == SmallestFrom(MapKeys, 1, Null)
         loop == ExpandLoop(dependencyMap[file], {})
     IN /\ Cardinality(loop) > Cardinality(dependencyMap[file])
        /\ dependencyMap' = StoreExpanded(dependencyMap, file, loop)
  /\ UNCHANGED <<pc, onMissing, pathPrefix, files, order, fileIndex, scanPos, missing,
                 warnings, error, referenceMap, hashCache, smallestFile, smallestLoop,
                 tasks, contents, requests, written, log>>

\* the set did not grow: processLoop(smallestLoop) starts
LoopProcess ==
  /\ pc = "loop"
  /\ fileIndex # {} /\ MapKeys # <<>>
  /\ LET file == SmallestFrom(MapKeys, 1, Null)
         loop == ExpandLoop(dependencyMap[file], {})
     IN /\ Cardinality(loop) <= Cardinality(dependencyMap[file])
        /\ smallestFile' = file
        /\ smallestLoop' = loop
        /\ log' = Append(log, [op |-> "process", path |-> file, unit |-> loop])
  /\ pc' = "phaseA"
  /\ tasks' = <<>>
  /\ contents' = <<>>
  /\ written' = <<>>
  /\ UNCHANGED <<onMissing, pathPrefix, files, order, fileIndex, scanPos, missing,
                 warnings, error, referenceMap, dependencyMap, hashCache, requests>>

(***************************************************************************)
(* processLoop (lines 190-212).                                            *)
(***************************************************************************)
sortedDependencies == SortStrings(smallestLoop)

\* new Uint8Array() of line 200 has no elements
Uint8ArrayLength == 0

\* TextEncoder.encodeInto(source, destination): writes as much of source as
\* fits the destination; returns the bytes of the destination
encodeInto(source, destinationLength) ==
  SubSeq(source, 1, Min(Len(source), destinationLength))

\* insertQueryParams(content, referenceMap.get(dependency), skip) on a file system
RewriteMember(dependency, content, refMap, skip, cache, disk) ==
  IF dependency \notin DOMAIN refMap
  THEN [transformed |-> content, references |-> <<>>, cache |-> cache, requests |-> <<>>]
  ELSE insertQueryParams(content, refMap[dependency], skip, cache, disk)

SetReferences(refMap, dependency, references) ==
  IF dependency \in DOMAIN refMap THEN [refMap EXCEPT ![dependency] = references] ELSE refMap

Without(map, keys) == [p \in DOMAIN map \ keys |-> map[p]]

StartTaskEmpty(dependency) == [transformed |-> <<>>, index |-> 1, offset |-> 0]

\* the locals of the callback of a member once line 195 has read its file
StartTask(dependency) == [transformed |-> files[dependency], index |-> 1, offset |-> 0]

RewriteStepSharedOffset(dependency, task, refMap, skip, cache, disk) ==
  InsertUpTo([transformed |-> task.transformed, references |-> refMap[dependency],
              index |-> task.index, offset |-> Cardinality(DOMAIN cache), cache |-> cache,
              requests |-> <<>>, done |-> FALSE],
             skip, disk, 1)

RewriteStepNoSkip(dependency, task, refMap, skip, cache, disk) ==
  InsertUpTo([transformed |-> task.transformed, references |-> refMap[dependency],
              index |-> task.index, offset |-> task.offset, cache |-> cache,
              requests |-> <<>>, done |-> FALSE],
             {}, disk, 1)

\* insertQueryParams(content, references, dependencies) of line 196 from the
\* locals task on, up to its next await
RewriteStep(dependency, task, refMap, skip, cache, disk) ==
  IF dependency \notin DOMAIN refMap
  THEN [transformed |-> task.transformed, references |-> <<>>, index |-> 1, offset |-> 0,
        cache |-> cache, requests |-> <<>>, done |-> TRUE]
  ELSE InsertUpTo([transformed |-> task.transformed, references |-> refMap[dependency],
                   index |-> task.index, offset |-> task.offset, cache |-> cache,
                   requests |-> <<>>, done |-> FALSE],
                  skip, disk, 1)

\* the callback of a member ran from one await to the next (r); events are
\* the events that came before
Resumed(dependency, r, events) ==
  /\ referenceMap' = SetReferences(referenceMap, dependency, r.references)
  /\ hashCache' = r.cache
  /\ requests' = requests \o r.requests
  /\ IF r.done
     THEN /\ contents' = contents @@ (dependency :> r.transformed)
          /\ tasks' = Without(tasks, {dependency})
          /\ log' = log \o events
                      \o <<[op |-> "phaseA", path |-> dependency, unit |-> smallestLoop]>>
     ELSE /\ contents' = contents
          /\ tasks' = [p \in DOMAIN tasks \cup {dependency} |->
                         IF p = dependency
                         THEN [transformed |-> r.transformed, index |-> r.index,
                               offset |-> r.offset]
                         ELSE tasks[p]]
          /\ log' = log \o events
  /\ UNCHANGED <<pc, error>>

\* lines 192-198: the callback of one member runs from one await to the next.
\* The callbacks of the members run concurrently: between two awaits of one,
\* any other may run.  A step is the call of hashFileWithCache of line 172
\* with what follows its await, up to the next call; the first step of a
\* member begins with the file read of line 195.
PhaseA(dependency) ==
  /\ pc = "phaseA"
  /\ dependency \in smallestLoop \ DOMAIN contents
  /\ IF dependency \in DOMAIN tasks
     THEN Resumed(dependency,
                  RewriteStep(dependency, tasks[dependency], referenceMap,
                              smallestLoop, hashCache, files),
                  <<>>)
     ELSE IF dependency \notin DOMAIN files
     THEN ReadFailed(dependency) /\ UNCHANGED <<hashCache, tasks, contents, requests>>
     ELSE Resumed(dependency,
                  RewriteStep(dependency, StartTask(dependency), referenceMap,
                              smallestLoop, hashCache, files),
                  <<[op |-> "read", path |-> dependency, unit |-> smallestLoop]>>)
  /\ UNCHANGED <<onMissing, pathPrefix, files, order, fileIndex, scanPos, missing,
                 warnings, dependencyMap, smallestFile, smallestLoop, written>>

\* lines 199-202 on the Phase A results
UnitHash(results) ==
  LET combined == Concat([k \in 1..Len(sortedDependencies) |-> results[sortedDependencies[k]]])
  IN hashContents(encodeInto(combined, Uint8ArrayLength))

SetUnitHashOfFirst(cache, hash) ==
  [p \in DOMAIN cache \cup {smallestFile} |-> IF p = smallestFile THEN hash ELSE cache[p]]

SetUnitHashNot(cache, hash) == cache

SetUnitHashAll(cache, hash) ==
  [p \in DOMAIN cache \cup smallestLoop |-> hash]

\* lines 203-205
SetUnitHash(cache, hash) ==
  [p \in DOMAIN cache \cup smallestLoop |-> IF p \in smallestLoop THEN hash ELSE cache[p]]

\* lines 199-205: the checksum of the unit
Digest ==
  /\ pc = "phaseA"
  /\ DOMAIN contents = smallestLoop
  /\ hashCache' = SetUnitHash(hashCache, UnitHash(contents))
  /\ pc' = "phaseB"
  /\ log' = Append(log, [op |-> "digest", path |-> smallestFile, unit |-> smallestLoop])
  /\ UNCHANGED <<onMissing, pathPrefix, files, order, fileIndex, scanPos, missing,
                 warnings, error, referenceMap, dependencyMap, smallestFile,
                 smallestLoop, tasks, contents, requests, written>>

PhaseBElsewhere ==
  /\ pc = "phaseB"
  /\ Len(written) < Len(sortedDependencies)
  /\ LET dependency == sortedDependencies[Len(written) + 1]
         r == RewriteMember(dependency, contents[dependency], referenceMap,
                            {}, hashCache, files)
     IN /\ files' = [p \in DOMAIN files \cup {dependency} |->
                        IF p \in {dependency, order[Len(order)]} THEN r.transformed
                        ELSE files[p]]
        /\ referenceMap' = SetReferences(referenceMap, dependency, r.references)
        /\ hashCache' = r.cache
        /\ requests' = requests \o r.requests
        /\ written' = Append(written, dependency)
        /\ log' = Append(log, [op |-> "write", path |-> dependency, unit |-> smallestLoop])
  /\ UNCHANGED <<pc, onMissing, pathPrefix, order, fileIndex, scanPos, missing,
                 warnings, error, dependencyMap, smallestFile, smallestLoop, tasks,
                 contents>>

\* lines 206-211: one iteration, the next member in sorted order
PhaseB ==
  /\ pc = "phaseB"
  /\ Len(written) < Len(sortedDependencies)
  /\ LET dependency == sortedDependencies[Len(written) + 1]
         r == RewriteMember(dependency, contents[dependency], referenceMap,
                            {}, hashCache, files)
     IN /\ files' = [p \in DOMAIN files \cup {dependency} |->
                        IF p = dependency THEN r.transformed ELSE files[p]]
        /\ referenceMap' = SetReferences(referenceMap, dependency, r.references)
        /\ hashCache' = r.cache
        /\ requests' = requests \o r.requests
        /\ written' = Append(written, dependency)
        /\ log' = Append(log, [op |-> "write", path |-> dependency, unit |-> smallestLoop])
  /\ UNCHANGED <<pc, onMissing, pathPrefix, order, fileIndex, scanPos, missing,
                 warnings, error, dependencyMap, smallestFile, smallestLoop, tasks,
                 contents>>

(***************************************************************************)
(* Lines 240-248: the unit leaves the index and the maps.                  *)
(***************************************************************************)
RemoveFromKeys ==
  /\ pc = "phaseB"
  /\ Len(written) = Len(sortedDependencies)
  /\ LET loop == smallestLoop \cup {smallestFile}
     IN /\ referenceMap' = Without(referenceMap, loop)
        /\ fileIndex' = fileIndex \ loop
        /\ dependencyMap' = Without(dependencyMap, loop)
        /\ log' = Append(log, [op |-> "remove", path |-> smallestFile, unit |-> loop])
  /\ pc' = "loop"
  /\ UNCHANGED <<onMissing, pathPrefix, files, order, scanPos, missing, warnings, error,
                 hashCache, smallestFile, smallestLoop, tasks, contents, requests, written>>

RemoveOnlyFile ==
  /\ pc = "phaseB"
  /\ Len(written) = Len(sortedDependencies)
  /\ referenceMap' = Without(referenceMap, {smallestFile})
  /\ fileIndex' = fileIndex \ {smallestFile}
  /\ dependencyMap' = [p \in DOMAIN dependencyMap \ {smallestFile} |->
                         dependencyMap[p] \ {smallestFile}]
  /\ log' = Append(log, [op |-> "remove", path |-> smallestFile, unit |-> {smallestFile}])
  /\ pc' = "loop"
  /\ UNCHANGED <<onMissing, pathPrefix, files, order, scanPos, missing, warnings, error,
                 hashCache, smallestFile, smallestLoop, tasks, contents, requests, written>>

Remove ==
  /\ pc = "phaseB"
  /\ Len(written) = Len(sortedDependencies)
  /\ LET loop == smallestLoop \cup {smallestFile}
     IN /\ referenceMap' = Without(referenceMap, loop)
        /\ fileIndex' = fileIndex \ loop
        /\ dependencyMap' = [p \in DOMAIN dependencyMap \ loop |-> dependencyMap[p] \ loop]
        /\ log' = Append(log, [op |-> "remove", path |-> smallestFile, unit |-> loop])
  /\ pc' = "loop"
  /\ UNCHANGED <<onMissing, pathPrefix, files, order, scanPos, missing, warnings, error,
                 hashCache, smallestFile, smallestLoop, tasks, contents, requests, written>>

\* the options and the starting file system do not change and there is no
\* second run
Alone == UNCHANGED <<snapshot, twin, maxLength>>

Next ==
  \/ Scan /\ Alone
  \/ LoopExit /\ Alone
  \/ LoopExpand /\ Alone
  \/ LoopProcess /\ Alone
  \/ \E dependency \in smallestLoop : PhaseA(dependency) /\ Alone
  \/ Digest /\ Alone
  \/ PhaseB /\ Alone
  \/ Remove /\ Alone

Spec == Init /\ [][Next]_vars

(***************************************************************************)
(* Two runs side by side.  The second run starts from a file system that   *)
(* differs from the first in the tag character of one file, so it finds    *)
(* the same references, takes the same branches and its steps are the      *)
(* steps of the first run applied to its own files, maps and cache.        *)
(***************************************************************************)
Retagged(fs, path) == [fs EXCEPT ![path] = <<Lit(">")>> \o Tail(@)]

InitTwin ==
  \E fs \in GraphFiles, path \in fastGlobSync(include, exclude) :
    /\ InitRun(fs, <<PathA, PathB, PathC>>, "warn", Str(<<"/">>))
    /\ maxLength = Infinity
    /\ twin = [start |-> Retagged(fs, path), files |-> Retagged(fs, path),
               referenceMap |-> <<>>, hashCache |-> <<>>, tasks |-> <<>>,
               contents |-> <<>>, finished |-> <<>>]

TwinScan ==
  LET path == order[scanPos + 1]
      r == ScanFile(path, twin.files[path], missing)
  IN twin' = [twin EXCEPT !.referenceMap = @ @@ (path :> r.references)]

TwinProcess == twin' = [twin EXCEPT !.tasks = <<>>, !.contents = <<>>]

\* the locals of the callback of a member of the second run
TwinTask(dependency) ==
  IF dependency \in DOMAIN twin.tasks THEN twin.tasks[dependency]
  ELSE [transformed |-> twin.files[dependency], index |-> 1, offset |-> 0]

TwinResumed(dependency, r) ==
  twin' = [twin EXCEPT
             !.referenceMap = SetReferences(@, dependency, r.references),
             !.hashCache = r.cache,
             !.contents = IF r.done THEN @ @@ (dependency :> r.transformed) ELSE @,
             !.finished = IF r.done THEN Append(@, dependency) ELSE @,
             !.tasks = IF r.done THEN Without(@, {dependency})
                       ELSE [p \in DOMAIN @ \cup {dependency} |->
                               IF p = dependency
                               THEN [transformed |-> r.transformed, index |-> r.index,
                                     offset |-> r.offset]
                               ELSE @[p]]]

TwinPhaseA(dependency) ==
  TwinResumed(dependency,
              RewriteStep(dependency, TwinTask(dependency), twin.referenceMap,
                          smallestLoop, twin.hashCache, twin.files))

TwinDigest ==
  twin' = [twin EXCEPT !.hashCache = SetUnitHash(@, UnitHash(twin.contents))]

TwinPhaseB ==
  LET dependency == sortedDependencies[Len(written) + 1]
      r == RewriteMember(dependency, twin.contents[dependency], twin.referenceMap,
                         {}, twin.hashCache, twin.files)
  IN twin' = [twin EXCEPT !.files = [@ EXCEPT ![dependency] = r.transformed],
                          !.referenceMap = SetReferences(@, dependency, r.references),
                          !.hashCache = r.cache]

TwinRemove ==
  twin' = [twin EXCEPT !.referenceMap = Without(@, smallestLoop \cup {smallestFile})]

\* the options and the starting file system do not change
Both == UNCHANGED <<snapshot, maxLength>>

NextTwin ==
  \/ Scan /\ TwinScan /\ Both
  \/ LoopExit /\ Alone
  \/ LoopExpand /\ Alone
  \/ LoopProcess /\ TwinProcess /\ Both
  \/ \E dependency \in smallestLoop :
       PhaseA(dependency) /\ TwinPhaseA(dependency) /\ Both
  \/ Digest /\ TwinDigest /\ Both
  \/ PhaseB /\ TwinPhaseB /\ Both
  \/ Remove /\ TwinRemove /\ Both

SpecTwin == InitTwin /\ [][NextTwin]_vars

(***************************************************************************)
(* A run during which files disappear.  fastGlob has built the indexes     *)
(* (lines 74-85) from the files that existed; from then on another process *)
(* may delete a file the run has not hashed yet.  fs.readFile of a deleted *)
(* file rejects; fs.writeFile creates the file again.                      *)
(***************************************************************************)
Unlinks == Cardinality({k \in DOMAIN log : log[k].op = "unlink"})

Unlink(path) ==
  /\ pc \in {"scan", "loop", "phaseA", "phaseB"}
  /\ Unlinks < MaxUnlinks
  /\ path \in DOMAIN files
  /\ path \notin DOMAIN hashCache
  /\ files' = Without(files, {path})
  /\ log' = Append(log, [op |-> "unlink", path |-> path, unit |-> {}])
  /\ UNCHANGED <<pc, onMissing, pathPrefix, order, fileIndex, scanPos, missing, warnings,
                 error, referenceMap, dependencyMap, hashCache, smallestFile,
                 smallestLoop, tasks, contents, requests, written>>

\* the references of the rich file of this family
LossChoices ==
  {RefSpec(<<".", "/", "a", ".", "h">>, FALSE), RefSpec(<<".", "/", "b", ".", "h">>, FALSE),
   RefSpec(<<".", "/", "b", ".", "h">>, TRUE), RefSpec(<<".", "/", "s", ".", "c">>, FALSE),
   RefSpec(<<".", "/", "s", ".", "c">>, TRUE)}

\* the second and the third file: no references; the second refers back to
\* the first and to the asset that is not indexed; the three close a cycle
LossRest ==
  {<<<<>>, <<>>>>,
   <<<<RefSpec(<<".", "/", "a", ".", "h">>, FALSE),
       RefSpec(<<".", "/", "s", ".", "c">>, FALSE)>>, <<>>>>,
   <<<<RefSpec(<<".", "/", "c", ".", "h">>, FALSE)>>,
     <<RefSpec(<<".", "/", "a", ".", "h">>, FALSE)>>>>}

\* one file with any list of at most MaxLossRefs references
LossFiles ==
  {PathA :> MakeContent("<", ra) @@ PathB :> MakeContent("<", rest[1])
     @@ PathC :> MakeContent("<", rest[2]) @@ PathS :> Str(<<"s">>)
     @@ PathX :> Str(<<"x">>) :
   ra \in SeqsUpTo(LossChoices, MaxLossRefs), rest \in LossRest}

InitLoss ==
  \E fs \in LossFiles :
    /\ InitRun(fs, <<PathA, PathB, PathC>>, "warn", Str(<<"/">>))
    /\ maxLength = Infinity
    /\ twin = NoTwin

NextLoss ==
  \/ Scan /\ Alone
  \/ LoopExit /\ Alone
  \/ LoopExpand /\ Alone
  \/ LoopProcess /\ Alone
  \/ \E dependency \in smallestLoop : PhaseA(dependency) /\ Alone
  \/ Digest /\ Alone
  \/ PhaseB /\ Alone
  \/ Remove /\ Alone
  \/ \E path \in assetIndex : Unlink(path) /\ Alone

SpecLoss == InitLoss /\ [][NextLoss]_vars

(***************************************************************************)
(* Two runs from the same file system and options.  They scan the same     *)
(* references and hand the same units to processLoop; in Phase A each run  *)
(* resumes a callback of its own choice, so the two runs go through the    *)
(* callbacks of a unit in any two orders.                                  *)
(***************************************************************************)
InitRerun ==
  \E fs \in LossFiles :
    /\ InitRun(fs, <<PathA, PathB, PathC>>, "warn", Str(<<"/">>))
    /\ maxLength = Infinity
    /\ twin = [start |-> fs, files |-> fs, referenceMap |-> <<>>, hashCache |-> <<>>,
               tasks |-> <<>>, contents |-> <<>>, finished |-> <<>>]

\* the second run resumes a callback that has not returned
TwinPhaseAOwn(dependency) ==
  /\ dependency \in smallestLoop \ DOMAIN twin.contents
  /\ TwinPhaseA(dependency)

NextRerun ==
  \/ Scan /\ TwinScan /\ Both
  \/ LoopExit /\ Alone
  \/ LoopExpand /\ Alone
  \/ LoopProcess /\ TwinProcess /\ Both
  \/ \E dependency \in smallestLoop, other \in smallestLoop :
       PhaseA(dependency) /\ TwinPhaseAOwn(other) /\ Both
  \/ Digest /\ TwinDigest /\ Both
  \/ PhaseB /\ TwinPhaseB /\ Both
  \/ Remove /\ TwinRemove /\ Both

SpecRerun == InitRerun /\ [][NextRerun]_vars

(***************************************************************************)
(* insertQueryParams on a reference list in any order.  The second run     *)
(* starts from the same file system; what its scan stores for a file is    *)
(* the reference list of the first run in some order, so the calls of      *)
(* insertQueryParams of the two runs get the same text and the same        *)
(* references, in two orders.                                              *)
(***************************************************************************)
\* the orders of a list
Reorderings(list) ==
  {[k \in DOMAIN list |-> list[f[k]]] :
     f \in {g \in [DOMAIN list -> DOMAIN list] : Range(g) = DOMAIN list}}

TwinScanReordered ==
  LET path == order[scanPos + 1]
      r == ScanFile(path, twin.files[path], missing)
  IN \E references \in Reorderings(r.references) :
       twin' = [twin EXCEPT !.referenceMap = @ @@ (path :> references)]

NextReorder ==
  \/ Scan /\ TwinScanReordered /\ Both
  \/ LoopExit /\ Alone
  \/ LoopExpand /\ Alone
  \/ LoopProcess /\ TwinProcess /\ Both
  \/ \E dependency \in smallestLoop :
       PhaseA(dependency) /\ TwinPhaseA(dependency) /\ Both
  \/ Digest /\ TwinDigest /\ Both
  \/ PhaseB /\ TwinPhaseB /\ Both
  \/ Remove /\ TwinRemove /\ Both

SpecReorder == InitRerun /\ [][NextReorder]_vars

(***************************************************************************)
(* Runs with the maxLength option set: negative, zero, shorter than a      *)
(* checksum, as long, longer, and not set (the default of line 31).        *)
(***************************************************************************)
LengthOptions == {0 - 1, 0, 1, DigestLen, DigestLen + 1, Infinity}

InitLength ==
  \E fs \in LossFiles, length \in LengthOptions :
    /\ InitRun(fs, <<PathA, PathB, PathC>>, "warn", Str(<<"/">>))
    /\ maxLength = length
    /\ twin = NoTwin

SpecLength == InitLength /\ [][Next]_vars

(***************************************************************************)
(* The Eleventy plugin of src/mod.ts: the transform it registers, applied  *)
(* to the content of one page.  tasks holds the page and the content the   *)
(* transform is called with, contents what it returns, hashCache the       *)
(* syncCache of createChecksumComputer.                                    *)
(***************************************************************************)
MaxPieces == 3      \* pieces the content of a page is made of

rootDir == Str(<<"d">>)                        \* option rootDir

processExtensions == {Str(<<"m">>)}            \* option processExtensions

hashedExtensions == <<Str(<<"c">>), Str(<<"h">>)>>   \* option hashedExtensions

\* urlChars (line 118): the class holds ".", "/", "?", "#", "&", "=" and the
\* letters; " ", "<" and ">" are outside it
IsAssetUrlChar(ch) ==
  ch.c \in {".", "/", "?", "#", "&", "=", "a", "b", "c", "d", "h", "m", "p", "q", "s",
            "v", "w", "x"}

\* the last character of the run of urlChars that starts after position at
RECURSIVE AssetRunEnd(_, _)
AssetRunEnd(content, at) ==
  IF at = Len(content) \/ ~IsAssetUrlChar(content[at + 1]) THEN at
  ELSE AssetRunEnd(content, at + 1)

\* the first of the hashedExtensions that stands at position at, or Null
RECURSIVE ExtensionAt(_, _, _)
ExtensionAt(content, at, k) ==
  IF k > Len(hashedExtensions) THEN Null
  ELSE IF /\ at + Len(hashedExtensions[k]) - 1 <= Len(content)
          /\ SubSeq(content, at, at + Len(hashedExtensions[k]) - 1) = hashedExtensions[k]
  THEN hashedExtensions[k]
  ELSE ExtensionAt(content, at, k + 1)

\* assetPathRegex (lines 119-122) matched at position start: the position of
\* the last character of the match, 0 if there is none.  In the template
\* literal "\w" of the lookbehind is the letter w.  The dots are taken
\* greedily, then the "/" not preceded by "w", then the longest run of
\* urlChars that still leaves a "." and an extension.
AssetPathEnd(content, start) ==
  LET n == Len(content)
      dots == IF start + 2 <= n /\ content[start].c = "." /\ content[start + 1].c = "."
                 /\ content[start + 2].c = "/" THEN 2
              ELSE IF start + 1 <= n /\ content[start].c = "." /\ content[start + 1].c = "/"
              THEN 1 ELSE 0
      slash == start + dots
      ends == IF content[slash].c # "/" \/ (slash > 1 /\ content[slash - 1].c = "w") THEN {}
              ELSE {q + Len(ExtensionAt(content, q + 1, 1)) :
                      q \in {j \in (slash + 1)..AssetRunEnd(content, slash) :
                               content[j].c = "." /\ ExtensionAt(content, j + 1, 1) # Null}}
  IN IF ends = {} THEN 0 ELSE CHOOSE e \in ends : \A f \in ends : f <= e

\* content.matchAll(assetPathRegex) (line 139), as
\* [index |-> match.index, text |-> match[0]]
RECURSIVE AssetMatchAllFrom(_, _)
AssetMatchAllFrom(content, from) ==
  IF from > Len(content) THEN <<>>
  ELSE IF AssetPathEnd(content, from) = 0 THEN AssetMatchAllFrom(content, from + 1)
  ELSE <<[index |-> from - 1, text |-> SubSeq(content, from, AssetPathEnd(content, from))]>>
         \o AssetMatchAllFrom(content, AssetPathEnd(content, from) + 1)

\* lines 107-111; an absolute path is held by its part below the working
\* directory of the process
defaultResolvePath(assetPath, page) ==
  IF StartsWith(assetPath, Str(<<"/">>))
  THEN nodePathJoin(rootDir, Str(<<".">>) \o assetPath)
  ELSE nodePathJoin(nodePathDirname(page.outputPath), assetPath)

\* the inner computeChecksum of createChecksumComputer (lines 62-73)
checksumOfFile(assetPath, disk) ==
  IF assetPath \notin DOMAIN disk THEN Null
  ELSE IF maxLength = Infinity THEN computeChecksum(disk[assetPath])
  ELSE IF maxLength >= 0
  THEN SubSeq(computeChecksum(disk[assetPath]), 1, Min(maxLength, DigestLen))
  ELSE SubSeq(computeChecksum(disk[assetPath]), 1, DigestLen + maxLength)

\* the function createChecksumComputer returns (lines 74-83)
createChecksumComputer(assetPath, cache, disk) ==
  IF assetPath \in DOMAIN cache
  THEN [hash |-> cache[assetPath], cache |-> cache, started |-> FALSE]
  ELSE [hash |-> checksumOfFile(assetPath, disk),
        cache |-> cache @@ (assetPath :> checksumOfFile(assetPath, disk)),
        started |-> TRUE]

\* lines 86-89
insertAt(target, inserted, index) ==
  SubSeq(target, 1, Min(index, Len(target))) \o inserted \o SubSeq(target, index + 1, Len(target))

\* lines 140-146: the callbacks of rawMatches.map from the k-th match on;
\* st holds the insertions [endIndex, checksum] in the order of the matches,
\* the cache and the calls of computeChecksum
RECURSIVE Insertions(_, _, _, _, _)
InsertionFor(matches, k, page, disk, st, r) ==
  Insertions(matches, k + 1, page, disk,
    [insertions |-> Append(st.insertions,
                      [endIndex |-> matches[k].index + Len(matches[k].text),
                       checksum |-> r.hash]),
     cache |-> r.cache,
     requests |-> Append(st.requests,
                    [path |-> defaultResolvePath(matches[k].text, page), hash |-> r.hash,
                     started |-> r.started])])

Insertions(matches, k, page, disk, st) ==
  IF k > Len(matches) THEN st
  ELSE InsertionFor(matches, k, page, disk, st,
         createChecksumComputer(defaultResolvePath(matches[k].text, page), st.cache, disk))

\* lines 148-156: the loop over the flipped insertions, from the k-th
\* insertion down to the first
RECURSIVE InsertFlipped(_, _, _, _)
InsertFlipped(content, insertions, k, result) ==
  IF k = 0 THEN result
  ELSE IF insertions[k].checksum = Null THEN InsertFlipped(content, insertions, k - 1, result)
  ELSE IF /\ insertions[k].endIndex + 2 <= Len(content)
          /\ content[insertions[k].endIndex + 2].c = "?"
  THEN InsertFlipped(content, insertions, k - 1,
         insertAt(result, param \o Str(<<"=">>) \o insertions[k].checksum \o Str(<<"&">>),
                  insertions[k].endIndex + 1))
  ELSE InsertFlipped(content, insertions, k - 1,
         insertAt(result, Str(<<"?">>) \o param \o Str(<<"=">>) \o insertions[k].checksum,
                  insertions[k].endIndex))

\* the page is one the transform rewrites (lines 131-137)
IsProcessed(page) ==
  /\ page.outputPath # Null
  /\ Len(page.outputFileExtension) + 1 <= Len(page.outputPath)
  /\ SubSeq(page.outputPath, Len(page.outputPath) - Len(page.outputFileExtension),
            Len(page.outputPath)) = Str(<<".">>) \o page.outputFileExtension
  /\ page.outputFileExtension \in processExtensions

\* the pieces a content is made of
Pieces ==
  {Str(<<"/", "s", ".", "c">>), Str(<<".", "/", "b", ".", "h">>), Str(<<"?">>),
   Str(<<" ">>), Str(<<"x">>), Str(<<"w">>), Str(<<".">>)}

PageContents ==
  UNION {{Concat(pieces) : pieces \in [1..n -> Pieces]} : n \in 0..MaxPieces}

Pages ==
  {[outputPath |-> Null, outputFileExtension |-> Str(<<"m">>)],
   [outputPath |-> Str(<<"d", "/", "p", ".", "m">>), outputFileExtension |-> Str(<<"m">>)],
   [outputPath |-> PathX, outputFileExtension |-> Str(<<"p">>)]}

\* the assets of the output directory: each of the two may be there or not
AssetDisks ==
  {[p \in present |-> IF p = PathS THEN Str(<<"s">>) ELSE Str(<<"b">>)] :
     present \in SUBSET {PathS, PathB}}

InitTransform ==
  \E disk \in AssetDisks, page \in Pages, content \in PageContents,
     length \in {1, Infinity} :
    /\ pc = "transform"
    /\ onMissing = "warn"
    /\ pathPrefix = Str(<<"/">>)
    /\ maxLength = length
    /\ files = disk
    /\ order = <<>>
    /\ fileIndex = {}
    /\ scanPos = 0
    /\ missing = {}
    /\ warnings = <<>>
    /\ error = Null
    /\ referenceMap = <<>>
    /\ dependencyMap = <<>>
    /\ hashCache = <<>>
    /\ smallestFile = Null
    /\ smallestLoop = {}
    /\ tasks = [page |-> page, content |-> content]
    /\ contents = <<>>
    /\ requests = <<>>
    /\ written = <<>>
    /\ log = <<>>
    /\ snapshot = disk
    /\ twin = NoTwin

\* lines 148-157 on the insertions the callbacks returned
Returned(content, st) ==
  /\ contents' = InsertFlipped(content, st.insertions, Len(st.insertions), content)
  /\ hashCache' = st.cache
  /\ requests' = requests \o st.requests

\* the transform (lines 128-158) called for the page
Transform ==
  /\ pc = "transform"
  /\ IF ~IsProcessed(tasks.page)
     THEN contents' = tasks.content /\ UNCHANGED <<hashCache, requests>>
     ELSE Returned(tasks.content,
            Insertions(AssetMatchAllFrom(tasks.content, 1), 1, tasks.page, files,
                       [insertions |-> <<>>, cache |-> hashCache, requests |-> <<>>]))
  /\ pc' = "done"
  /\ log' = Append(log, [op |-> "transform", path |-> tasks.page.outputPath, unit |-> {}])
  /\ UNCHANGED <<onMissing, pathPrefix, maxLength, files, order, fileIndex, scanPos,
                 missing, warnings, error, referenceMap, dependencyMap, smallestFile,
                 smallestLoop, tasks, written, snapshot, twin>>

NextTransform == Transform

SpecTransform == InitTransform /\ [][NextTransform]_vars

TypeOK ==
  /\ pc \in {"scan", "loop", "phaseA", "phaseB", "done", "failed"}
  /\ fileIndex \subseteq DiskPaths
  /\ DOMAIN referenceMap \subseteq DiskPaths

(***************************************************************************)
(* What the claims speak of.                                               *)
(***************************************************************************)
\* the files indexed at the start of the run
Indexed == Range(order)

\* the member of the asset index a reference of file path names, or Null
Target(text, path) ==
  LET r == ResultingPath(text, path)
  IN IF r \in assetIndex THEN r ELSE Null

\* the resolved references of a file as the run found it
Targets(path) ==
  {Target(m.text, path) : m \in Range(matchAll(snapshot[path]))} \ {Null}

\* the indexed files a file references among those still in the index
IndexEdges(path) == Targets(path) \cap fileIndex

RECURSIVE ReachFrom(_)
ReachFrom(set) ==
  LET more == set \cup UNION {IndexEdges(p) : p \in set}
  IN IF more = set THEN set ELSE ReachFrom(more)

LogHas(op, path) == \E k \in DOMAIN log : log[k].op = op /\ log[k].path = path

Removed(path) == \E k \in DOMAIN log : log[k].op = "remove" /\ path \in log[k].unit

\* the maximal runs of URL characters of a content, left to right
RECURSIVE RunsFrom(_, _)
RunsFrom(content, from) ==
  IF from > Len(content) THEN <<>>
  ELSE IF ~IsUrlChar(content[from]) THEN RunsFrom(content, from + 1)
  ELSE LET e == RunEnd(content, from)
       IN <<[index |-> from - 1, text |-> SubSeq(content, from, e)]>>
            \o RunsFrom(content, e + 1)

\* the path-like tokens of a content: the runs that hold a "."
Tokens(content) ==
  SelectSeq(RunsFrom(content, 1), LAMBDA r : \E k \in DOMAIN r.text : r.text[k].c = ".")

TokenEnd(token) == token.index + Len(token.text)

\* the token is a match of pathRegex in the content
IsMatch(content, token) ==
  /\ token.index >= 1
  /\ TokenEnd(token) < Len(content)
  /\ MatchesPath(token.text)

\* the asset the token refers to, Null if it is no reference to an asset
TokenTarget(content, token, path) ==
  IF IsMatch(content, token) THEN Target(token.text, path) ELSE Null

\* the characters of content from JavaScript index at on are text
FollowedBy(content, at, text) ==
  /\ at + Len(text) <= Len(content)
  /\ SubSeq(content, at + 1, at + Len(text)) = text

\* an identifier stands right after JavaScript index at: ?param=#
IdentifierAfter(content, at) ==
  /\ FollowedBy(content, at, Str(<<"?">>) \o param \o Str(<<"=">>))
  /\ at + Len(param) + 3 <= Len(content)
  /\ content[at + Len(param) + 3].c = "#"

\* the last unit handed to processLoop has its checksum
UnitHashed == pc \in {"phaseB", "loop", "done"} /\ smallestLoop # {}

(***************************************************************************)
(* C2: when processLoop finalizes a unit, the checksum it assigns to the   *)
(* members is the checksum of the concatenation of the members' Phase A    *)
(* contents, members in sorted path order.                                 *)
(***************************************************************************)
C2_UnitChecksumOfContents ==
  pc = "phaseB" =>
    \A m \in smallestLoop :
      /\ m \in DOMAIN hashCache
      /\ hashCache[m] =
           hashContents(Concat([k \in 1..Len(sortedDependencies) |->
                                   contents[sortedDependencies[k]]]))

(***************************************************************************)
(* C3: all members of one unit get the same identifier: after the unit's   *)
(* checksum is set the cache maps every member to one value, and every     *)
(* reference to a member in a written member is followed by that value.    *)
(***************************************************************************)
C3_UnitSharesIdentifier ==
  UnitHashed =>
    /\ \A m1, m2 \in smallestLoop :
         /\ m1 \in DOMAIN hashCache
         /\ m2 \in DOMAIN hashCache
         /\ hashCache[m1] = hashCache[m2]
    /\ \A m \in Range(written) :
         \A token \in Range(Tokens(files[m])) :
           TokenTarget(files[m], token, m) \in smallestLoop =>
             FollowedBy(files[m], TokenEnd(token),
                        Str(<<"?">>) \o param \o Str(<<"=">>) \o hashCache[smallestFile])

C3_Witness ==
  /\ pc = "done"
  /\ Cardinality(smallestLoop) >= 2
  /\ \E m \in smallestLoop :
       Cardinality({token \in Range(Tokens(files[m])) :
                      TokenTarget(files[m], token, m) \in smallestLoop}) >= 2

(***************************************************************************)
(* C4: dependency order: while processLoop works on a unit, every indexed  *)
(* file that a member references and that is not in the unit has been      *)
(* finalized: written, and removed from the index.                         *)
(***************************************************************************)
C4_DependencyOrder ==
  pc \in {"phaseA", "phaseB"} =>
    \A m \in smallestLoop :
      \A t \in Targets(m) :
        (t \in Indexed /\ t \notin smallestLoop) =>
          /\ t \notin fileIndex
          /\ Removed(t)
          /\ LogHas("write", t)

C4_Witness ==
  /\ pc = "phaseA"
  /\ \E m \in smallestLoop : \E t \in Targets(m) : t \in Indexed /\ t \notin smallestLoop

(***************************************************************************)
(* C5: minimality: every unit handed to processLoop is, when it is handed   *)
(* over, strongly connected in the reference graph restricted to the       *)
(* current index: each member reaches every other member.                  *)
(***************************************************************************)
C5_UnitStronglyConnected ==
  (pc = "phaseA" /\ contents = <<>>) =>
    \A m1, m2 \in smallestLoop : m2 \in ReachFrom({m1})

C5_Witness ==
  /\ pc = "phaseA"
  /\ Cardinality(smallestLoop) = 2
  /\ \E m \in smallestLoop : \E t \in Targets(m) : t \in Indexed /\ t \notin smallestLoop

\* the sum of the sizes of the dependency sets: at most the square of the index
SetsTotal(map) ==
  LET RECURSIVE Sum(_)
      Sum(keys) == IF keys = {} THEN 0
                   ELSE LET key == CHOOSE p \in keys : TRUE
                        IN Cardinality(map[key]) + Sum(keys \ {key})
  IN Sum(DOMAIN map)

\* an iteration of the main loop that does not hand a unit to processLoop
\* changes the stored sets
IterationAdvances ==
  (pc = "loop" /\ fileIndex # {} /\ MapKeys # <<>>) =>
    LET file == SmallestFrom(MapKeys, 1, Null)
        loop == ExpandLoop(dependencyMap[file], {})
    IN \/ Cardinality(loop) <= Cardinality(dependencyMap[file])
       \/ StoreExpanded(dependencyMap, file, loop) # dependencyMap

\* the variant of the main loop: the index shrinks, or it stays and the sets grow
IterationDecreases ==
  \/ fileIndex' \subseteq fileIndex /\ fileIndex' # fileIndex
  \/ /\ fileIndex' = fileIndex
     /\ SetsTotal(dependencyMap') > SetsTotal(dependencyMap)
     /\ SetsTotal(dependencyMap') <= Cardinality(fileIndex) * Cardinality(fileIndex)

(***************************************************************************)
(* C6: termination: every iteration of the main loop either shrinks the    *)
(* index or, leaving the index as it is, grows the dependency sets, which  *)
(* are bounded, so the "expand then continue" branch cannot repeat         *)
(* forever; the loop is left only with fileIndex empty.                    *)
(***************************************************************************)
C6_Terminates ==
  /\ []IterationAdvances
  /\ [][(pc' = "loop" /\ pc \in {"loop", "phaseB"}) => IterationDecreases]_vars
  /\ [](pc = "done" => fileIndex = {})

C6_Witness ==
  /\ pc = "done"
  /\ fileIndex = {}
  /\ Cardinality(smallestLoop) = 3

(***************************************************************************)
(* C7: abort before writes: a file is written only after every indexed     *)
(* file has been scanned and resolved, and a run that failed has written   *)
(* nothing.                                                                *)
(***************************************************************************)
C7_AbortBeforeWrites ==
  /\ (\E k \in DOMAIN log : log[k].op = "write") => (scanPos = Len(order) /\ pc # "failed")
  /\ files # snapshot => (scanPos = Len(order) /\ pc # "failed")

C7_Witness ==
  /\ pc = "failed"
  /\ onMissing = "error"
  /\ scanPos >= 1

(***************************************************************************)
(* C8 as stated: under the "error" policy no run completes normally when   *)
(* some scanned reference names a path that is not in the asset index.     *)
(***************************************************************************)
C8_Original ==
  (onMissing = "error" /\ pc = "done") =>
    \A p \in Indexed :
      \A m \in Range(matchAll(snapshot[p])) :
        ResultingPath(m.text, p) # Null => ResultingPath(m.text, p) \in assetIndex

(***************************************************************************)
(* C8 amended: under the "error" policy a run gets past the scan only if   *)
(* every scanned reference that names a path matched by includeAssets and  *)
(* not by excludeAssets names a member of the asset index; otherwise it    *)
(* fails with an error.                                                    *)
(***************************************************************************)
C8_ErrorOnMissingIncluded ==
  /\ (onMissing = "error" /\ pc \notin {"scan", "failed"}) =>
       \A p \in Indexed :
         \A m \in Range(matchAll(snapshot[p])) :
           LET r == ResultingPath(m.text, p)
           IN (r # Null /\ isMatch(r, includeAssets, excludeAssets)) => r \in assetIndex
  /\ pc = "failed" => (onMissing = "error" /\ error # Null)

C8_Witness ==
  /\ pc = "failed"
  /\ onMissing = "error"
  /\ error # Null
  /\ missing \cap {PathX} # {}

(***************************************************************************)
(* The text between the end of the k-th token and the next token (or the   *)
(* end of the content).                                                    *)
(***************************************************************************)
Gap(content, tokens, k) ==
  SubSeq(content, TokenEnd(tokens[k]) + 1,
         IF k < Len(tokens) THEN tokens[k + 1].index ELSE Len(content))

\* the hash the run holds for an asset, Null if it holds none
HashOf(path) == IF path \in DOMAIN hashCache THEN hashCache[path] ELSE Null

(***************************************************************************)
(* C9: no identifier is inserted after a reference that does not resolve   *)
(* to a member of the asset index: under every policy the tokens of a file *)
(* stay the same and the text after a token of unrecognized shape or with  *)
(* a missing target stays as it was; under "ignore" and "warn" the run     *)
(* does not fail, writes every indexed file and puts an identifier after   *)
(* every reference that resolves.                                          *)
(***************************************************************************)
C9_UnresolvedLeftAlone ==
  /\ \A p \in Indexed :
       LET now == Tokens(files[p])
           then == Tokens(snapshot[p])
       IN /\ Len(now) = Len(then)
          /\ \A k \in DOMAIN then :
               /\ now[k].text = then[k].text
               /\ TokenTarget(snapshot[p], then[k], p) = Null =>
                    /\ Gap(files[p], now, k) = Gap(snapshot[p], then, k)
                    /\ ~IdentifierAfter(files[p], TokenEnd(now[k]))
               /\ (pc = "done" /\ HashOf(TokenTarget(snapshot[p], then[k], p)) # Null) =>
                    IdentifierAfter(files[p], TokenEnd(now[k]))
  /\ onMissing # "error" => pc # "failed"
  /\ pc = "done" => \A p \in Indexed : LogHas("write", p)

C9_Witness ==
  /\ pc = "done"
  /\ onMissing = "warn"
  /\ warnings # <<>>
  /\ \E k1, k2 \in DOMAIN Tokens(snapshot[PathA]) :
       LET then == Tokens(snapshot[PathA])
       IN /\ TokenTarget(snapshot[PathA], then[k1], PathA) # Null
          /\ IdentifierAfter(files[PathA], TokenEnd(Tokens(files[PathA])[k1]))
          /\ IsMatch(snapshot[PathA], then[k2])
          /\ ResultingPath(then[k2].text, PathA) \notin assetIndex

(***************************************************************************)
(* C10: query merging: in a written file, for every resolved reference     *)
(* with a non-null identifier ID, if "?" stood right after the reference   *)
(* then "param=ID&" stands right after that "?", otherwise "?param=ID"     *)
(* stands right after the reference; the text that followed is unchanged.  *)
(***************************************************************************)
C10_QueryMerging ==
  \A p \in Indexed :
    LogHas("write", p) =>
      LET now == Tokens(files[p])
          then == Tokens(snapshot[p])
      IN /\ Len(now) = Len(then)
         /\ \A k \in DOMAIN then :
              LET id == HashOf(TokenTarget(snapshot[p], then[k], p))
                  before == Gap(snapshot[p], then, k)
              IN id # Null =>
                   IF before # <<>> /\ Head(before).c = "?"
                   THEN Gap(files[p], now, k) =
                          Str(<<"?">>) \o param \o Str(<<"=">>) \o id \o Str(<<"&">>) \o Tail(before)
                   ELSE Gap(files[p], now, k) =
                          Str(<<"?">>) \o param \o Str(<<"=">>) \o id \o before

C10_Witness ==
  /\ pc = "done"
  /\ \E k1, k2 \in DOMAIN Tokens(snapshot[PathA]) :
       LET then == Tokens(snapshot[PathA])
       IN /\ k1 < k2
          /\ TokenTarget(snapshot[PathA], then[k1], PathA) # Null
          /\ TokenTarget(snapshot[PathA], then[k2], PathA) # Null
          /\ Head(Gap(snapshot[PathA], then, k1)).c = "?"
          /\ Head(Gap(snapshot[PathA], then, k2)).c # "?"

(***************************************************************************)
(* The reference graph over the files indexed at the start of the run.     *)
(***************************************************************************)
Edges(path) == Targets(path) \cap Indexed

RECURSIVE Reachable(_)
Reachable(set) ==
  LET more == set \cup UNION {Edges(p) : p \in set}
  IN IF more = set THEN set ELSE Reachable(more)

OnCycle(path) == path \in Reachable(Edges(path))

\* the two runs started from file systems that differ in the content of path only
DifferOnlyIn(path) ==
  /\ DOMAIN twin.start = DOMAIN snapshot
  /\ \A p \in DOMAIN snapshot : (twin.start[p] # snapshot[p]) <=> (p = path)

(***************************************************************************)
(* C1: propagation: for an acyclic chain of indexed files a -> b -> c, two *)
(* runs that differ only in the content of c give c different identifiers, *)
(* b different identifiers and a different identifiers.                    *)
(***************************************************************************)
C1_Propagation ==
  pc = "done" =>
    \A a, b, c \in Indexed :
      (/\ b \in Edges(a)
       /\ c \in Edges(b)
       /\ ~OnCycle(a) /\ ~OnCycle(b) /\ ~OnCycle(c)
       /\ DifferOnlyIn(c)) =>
        /\ hashCache[c] # twin.hashCache[c]
        /\ hashCache[b] # twin.hashCache[b]
        /\ hashCache[a] # twin.hashCache[a]

\* the unit a file was handed to processLoop in
UnitOf(path) ==
  UNION {log[k].unit : k \in {j \in DOMAIN log : log[j].op = "process" /\ path \in log[j].unit}}

\* the text a rewritten file holds from its k-th token on: each token as it
\* was, then the identifier of its target (none for no target and for a null
\* checksum), then the text that followed the token
RECURSIVE ExpectedFrom(_, _, _, _)
ExpectedFrom(content, tokens, k, path) ==
  IF k > Len(tokens) THEN <<>>
  ELSE LET id == HashOf(TokenTarget(content, tokens[k], path))
           gap == Gap(content, tokens, k)
           merged ==
             IF id = Null THEN gap
             ELSE IF gap # <<>> /\ Head(gap).c = "?"
             THEN Str(<<"?">>) \o param \o Str(<<"=">>) \o id \o Str(<<"&">>) \o Tail(gap)
             ELSE Str(<<"?">>) \o param \o Str(<<"=">>) \o id \o gap
       IN tokens[k].text \o merged \o ExpectedFrom(content, tokens, k + 1, path)

Expected(content, path) ==
  LET tokens == Tokens(content)
  IN IF tokens = <<>> THEN content
     ELSE SubSeq(content, 1, tokens[1].index) \o ExpectedFrom(content, tokens, 1, path)

(***************************************************************************)
(* C11: offset validity: the content written for a file is its original    *)
(* content with, for every resolved reference whose checksum is not null,  *)
(* the insertion placed at the end of that reference (or right after its   *)
(* "?"), and every other character kept in order, whether the reference    *)
(* was rewritten in Phase A, in Phase B, or not at all (null checksum).    *)
(***************************************************************************)
C11_OffsetValidity ==
  \A p \in Indexed :
    LogHas("write", p) => (p \in DOMAIN files /\ files[p] = Expected(snapshot[p], p))

C11_Witness ==
  /\ pc = "done"
  /\ LogHas("write", PathA)
  /\ LogHas("unlink", PathS)
  /\ \E k1, k2, k3 \in DOMAIN Tokens(snapshot[PathA]) :
       LET then == Tokens(snapshot[PathA])
           t1 == TokenTarget(snapshot[PathA], then[k1], PathA)
           t2 == TokenTarget(snapshot[PathA], then[k2], PathA)
           t3 == TokenTarget(snapshot[PathA], then[k3], PathA)
       IN /\ t1 \in UnitOf(PathA)
          /\ t2 # Null /\ t2 \notin UnitOf(PathA) /\ HashOf(t2) # Null
          /\ t3 # Null /\ HashOf(t3) = Null
          /\ k2 < k1

\* the number of times line 210 wrote a file
Writes(path) == Cardinality({k \in DOMAIN log : log[k].op = "write" /\ log[k].path = path})

(***************************************************************************)
(* C12 as stated: an indexed file with zero resolvable references is left  *)
(* unchanged by the run and is never written.                              *)
(***************************************************************************)
C12_Original ==
  \A p \in Indexed :
    Targets(p) = {} => (files[p] = snapshot[p] /\ Writes(p) = 0)

(***************************************************************************)
(* C12 amended: an indexed file with zero resolvable references is left    *)
(* with its content unchanged by the run: the one write of the file (line  *)
(* 210) writes the content the file had.                                   *)
(***************************************************************************)
C12_ContentUnchanged ==
  \A p \in Indexed :
    Targets(p) = {} =>
      /\ files[p] = snapshot[p]
      /\ Writes(p) <= 1
      /\ pc = "done" => Writes(p) = 1

C12_Witness ==
  /\ pc = "done"
  /\ Targets(PathA) = {}
  /\ Len(matchAll(snapshot[PathA])) = 2
  /\ Writes(PathA) = 1
  /\ files[PathA] = snapshot[PathA]
  /\ files[PathB] # snapshot[PathB]

\* the calls of hashFileWithCache for a path, in order
RequestsOf(path) == SelectSeq(requests, LAMBDA r : r.path = path)

(***************************************************************************)
(* C13: single-flight checksum cache: in every interleaving of the Phase A *)
(* callbacks, among the calls of hashFileWithCache for one path at most    *)
(* one starts hashFile (the read and the digest), and all of them return   *)
(* the same checksum.                                                      *)
(***************************************************************************)
C13_SingleFlight ==
  \A i, j \in DOMAIN requests :
    requests[i].path = requests[j].path =>
      /\ requests[i].hash = requests[j].hash
      /\ i # j => ~(requests[i].started /\ requests[j].started)

C13_Witness ==
  /\ pc = "phaseA"
  /\ PathA \in DOMAIN tasks
  /\ PathB \in DOMAIN contents
  /\ Len(RequestsOf(PathS)) = 2
  /\ RequestsOf(PathS)[1].started
  /\ ~RequestsOf(PathS)[2].started
  /\ RequestsOf(PathS)[1].hash # Null

\* the maximal runs of checksum characters of a content from position from on
RECURSIVE HashRunsFrom(_, _, _)
HashRunsFrom(content, from, run) ==
  IF from > Len(content) THEN (IF run = <<>> THEN <<>> ELSE <<run>>)
  ELSE IF content[from].c = "#" THEN HashRunsFrom(content, from + 1, Append(run, content[from]))
  ELSE (IF run = <<>> THEN <<>> ELSE <<run>>) \o HashRunsFrom(content, from + 1, <<>>)

\* the identifiers a content holds
Identifiers(content) == Range(HashRunsFrom(content, 1, <<>>))

\* the identifiers of the run: those embedded in the files and those held
\* for the assets
RunIdentifiers ==
  UNION {Identifiers(files[p]) : p \in Indexed}
    \cup ({hashCache[p] : p \in DOMAIN hashCache} \ {Null})

\* id is the first characters of the checksum of some buffer
IsChecksumPrefix(id) ==
  /\ id # <<>>
  /\ Len(id) <= DigestLen
  /\ id = SubSeq(computeChecksum(id[1].of), 1, Len(id))

DirectoryOf(path) ==
  LET slashes == {k \in DOMAIN path : path[k].c = "/"}
  IN SubSeq(path, 1, (CHOOSE k \in slashes : \A j \in slashes : j <= k) - 1)

\* the path a reference text names by the rules: rooted texts (the prefix,
\* then a file name) name a file of the processing directory, texts of the
\* form ./name a file beside the referencing file, other texts nothing
NamedPath(text, path) ==
  IF StartsWith(text, pathPrefix)
  THEN directory \o Str(<<"/">>) \o SubSeq(text, Len(pathPrefix) + 1, Len(text))
  ELSE IF StartsWith(text, Str(<<".", "/">>))
  THEN DirectoryOf(path) \o Str(<<"/">>) \o SubSeq(text, 3, Len(text))
  ELSE Null

\* the paths resolve is to return for the matches of a content, in order
NamedAssets(content, path) ==
  LET named == [k \in DOMAIN matchAll(content) |-> NamedPath(matchAll(content)[k].text, path)]
  IN SelectSeq(named, LAMBDA r : r \in assetIndex)

\* no unit has been handed to processLoop: the reference lists are as the
\* scan built them
Unprocessed == \A k \in DOMAIN log : log[k].op # "process"

(***************************************************************************)
(* C15: path resolution rules: a reference that starts with pathPrefix     *)
(* resolves to the prefix-stripped path joined to the processing           *)
(* directory, a reference that starts with "." to the path joined to the   *)
(* directory of the referencing file, any other shape to null; a non-null  *)
(* result of resolve is a member of the asset index.                       *)
(***************************************************************************)
C15_PathResolution ==
  /\ Unprocessed =>
       \A p \in DOMAIN referenceMap :
         [k \in DOMAIN referenceMap[p] |-> referenceMap[p][k].path]
           = NamedAssets(snapshot[p], p)
  /\ \A p \in DOMAIN referenceMap :
       \A k \in DOMAIN referenceMap[p] : referenceMap[p][k].path \in assetIndex

C15_Witness ==
  /\ pc = "loop"
  /\ Unprocessed
  /\ pathPrefix = Str(<<"/", "p", "/">>)
  /\ Len(matchAll(snapshot[PathA])) = 2
  /\ matchAll(snapshot[PathA])[1].text = Str(<<"/", "p", "/", "b", ".", "h">>)
  /\ matchAll(snapshot[PathA])[2].text = Str(<<"/", "b", ".", "h">>)
  /\ Len(referenceMap[PathA]) = 1
  /\ referenceMap[PathA][1].path = PathB
  /\ Len(referenceMap[PathB]) = 1
  /\ referenceMap[PathB][1].path = PathA

\* the members of the units in the order their Phase A callbacks returned
Finished ==
  LET done == SelectSeq(log, LAMBDA e : e.op = "phaseA")
  IN [k \in DOMAIN done |-> done[k].path]

(***************************************************************************)
(* C16: determinism: two runs over the same file system and options, each  *)
(* under its own interleaving of the Phase A callbacks, hold the same      *)
(* identifier for every asset both have hashed, write the same content to  *)
(* every file, and end with the same identifiers and the same files.       *)
(***************************************************************************)
C16_Determinism ==
  twin.start = snapshot =>
    /\ \A p \in DOMAIN hashCache \cap DOMAIN twin.hashCache : hashCache[p] = twin.hashCache[p]
    /\ \A p \in Indexed : LogHas("write", p) => twin.files[p] = files[p]
    /\ pc \in {"loop", "done"} => (twin.hashCache = hashCache /\ twin.files = files)

C16_Witness ==
  /\ pc = "done"
  /\ twin.start = snapshot
  /\ twin.finished # Finished
  /\ twin.files = files
  /\ Len(RequestsOf(PathS)) >= 2
  /\ \E p \in Indexed : Len(HashRunsFrom(files[p], 1, <<>>)) >= 3

\* the missing assets a file references: the paths its references name that
\* includeAssets matches, excludeAssets does not, and the asset index lacks
MissingIn(path) ==
  {r \in {ResultingPath(m.text, path) : m \in Range(matchAll(snapshot[path]))} :
     /\ r # Null
     /\ r \notin assetIndex
     /\ isMatch(r, includeAssets, excludeAssets)}

\* the first file, in the order of the scan, that references a missing asset
FirstWith(r) ==
  order[CHOOSE k \in DOMAIN order :
          /\ r \in MissingIn(order[k])
          /\ \A j \in 1..(k - 1) : r \notin MissingIn(order[j])]

\* the warnings logged for a missing asset
WarningsOf(r) == SelectSeq(warnings, LAMBDA w : w.missing = r)

(***************************************************************************)
(* C17 as stated: under "warn", for each file that contains a missing      *)
(* reference a warning that names that file and that reference is logged,  *)
(* and the run goes on.                                                    *)
(***************************************************************************)
C17_Original ==
  (onMissing = "warn" /\ scanPos = Len(order)) =>
    /\ \A p \in Indexed : \A r \in MissingIn(p) :
         \E k \in DOMAIN warnings : warnings[k] = Message(r, p)
    /\ pc # "failed"

(***************************************************************************)
(* C17 amended: under "warn", every missing asset is surfaced as one       *)
(* warning, which names the asset and the first file (in scan order) that  *)
(* references it; further references to the same asset, in that file or in *)
(* others, log nothing; and the run goes on.                               *)
(***************************************************************************)
C17_WarnOncePerAsset ==
  (onMissing = "warn" /\ scanPos = Len(order)) =>
    /\ \A p \in Indexed : \A r \in MissingIn(p) :
         WarningsOf(r) = <<Message(r, FirstWith(r))>>
    /\ \A k \in DOMAIN warnings : warnings[k].missing \in MissingIn(warnings[k].referencedIn)
    /\ pc # "failed"
    /\ pc = "done" => \A p \in Indexed : LogHas("write", p)

C17_Witness ==
  /\ pc = "done"
  /\ onMissing = "warn"
  /\ MissingIn(PathA) # {}
  /\ MissingIn(PathB) = MissingIn(PathA)
  /\ Len(warnings) = 1
  /\ warnings[1].referencedIn = PathA
  /\ Len(matchAll(snapshot[PathA])) = 2
  /\ files[PathA] # snapshot[PathA]

(***************************************************************************)
(* C18: unreadable artifact: when a file of the asset index disappears     *)
(* before it is hashed, the run is not aborted by the failed read, every   *)
(* other indexed file is still processed and written, and the references   *)
(* to the file are left without an identifier.                             *)
(***************************************************************************)
C18_UnreadableTolerated ==
  \A lost \in assetIndex :
    LogHas("unlink", lost) =>
      /\ pc # "failed"
      /\ pc = "done" =>
           \A p \in Indexed \ {lost} :
             /\ LogHas("write", p)
             /\ \A token \in Range(Tokens(files[p])) :
                  TokenTarget(files[p], token, p) = lost =>
                    ~IdentifierAfter(files[p], TokenEnd(token))

\* the positions of the log at which an event of kind op names the path
EventsAt(op, path) ==
  {k \in DOMAIN log : log[k].op = op /\ (log[k].path = path \/ (op \in {"process", "remove"} /\ path \in log[k].unit))}

\* a file that left the index is in none of the three collections, each
\* indexed file has been handed to processLoop and written at most once,
\* nothing reads or writes a file after the removal of its unit, and no
\* indexed file is ever read by hashFile
FinalizedOnce ==
  \A p \in Indexed :
    /\ Removed(p) => (p \notin fileIndex /\ p \notin DOMAIN referenceMap
                      /\ p \notin DOMAIN dependencyMap)
    /\ Cardinality(EventsAt("process", p)) <= 1
    /\ Cardinality(EventsAt("write", p)) <= 1
    /\ Cardinality(EventsAt("remove", p)) <= 1
    /\ \A r \in EventsAt("remove", p) :
         \A k \in EventsAt("scan", p) \cup EventsAt("read", p) \cup EventsAt("write", p)
                    \cup EventsAt("process", p) : k < r
    /\ \A k \in DOMAIN requests : requests[k].path = p => ~requests[k].started
    /\ pc = "done" =>
         /\ Cardinality(EventsAt("process", p)) = 1
         /\ Cardinality(EventsAt("write", p)) = 1
         /\ Removed(p)

\* no step adds a path to the index, and once the scan is over no step adds
\* a key to referenceMap or to dependencyMap
OnlyShrinks ==
  /\ fileIndex' \subseteq fileIndex
  /\ pc # "scan" =>
       /\ DOMAIN referenceMap' \subseteq DOMAIN referenceMap
       /\ DOMAIN dependencyMap' \subseteq DOMAIN dependencyMap

(***************************************************************************)
(* C19: finalize exactly once: the index only shrinks and no path is       *)
(* re-added to fileIndex, referenceMap or dependencyMap; every file        *)
(* indexed at the start of a completed run is a member of exactly one call *)
(* of processLoop, is written exactly once, and is neither read nor        *)
(* written after its unit is removed.                                      *)
(***************************************************************************)
C19_FinalizeOnce == []FinalizedOnce /\ [][OnlyShrinks]_vars

C19_Witness ==
  /\ pc = "done"
  /\ \E p, q \in Indexed :
       /\ p # q
       /\ Cardinality(UnitOf(p)) = 2
       /\ q \notin UnitOf(p)
       /\ UnitOf(p) \cap Targets(q) # {}
       /\ Cardinality(EventsAt("write", p)) = 1
       /\ Cardinality(EventsAt("write", q)) = 1

\* the text Phase A is to return for a member from its k-th token on: the
\* identifier of the target after each reference to an asset outside the
\* unit, nothing after a reference to a member
RECURSIVE OutsideFrom(_, _, _, _, _)
OutsideFrom(content, tokens, k, path, unit) ==
  IF k > Len(tokens) THEN <<>>
  ELSE LET target == TokenTarget(content, tokens[k], path)
           id == IF target \in unit THEN Null ELSE HashOf(target)
           gap == Gap(content, tokens, k)
           merged ==
             IF id = Null THEN gap
             ELSE IF gap # <<>> /\ Head(gap).c = "?"
             THEN Str(<<"?">>) \o param \o Str(<<"=">>) \o id \o Str(<<"&">>) \o Tail(gap)
             ELSE Str(<<"?">>) \o param \o Str(<<"=">>) \o id \o gap
       IN tokens[k].text \o merged \o OutsideFrom(content, tokens, k + 1, path, unit)

ExpectedOutside(content, path, unit) ==
  LET tokens == Tokens(content)
  IN IF tokens = <<>> THEN content
     ELSE SubSeq(content, 1, tokens[1].index) \o OutsideFrom(content, tokens, 1, path, unit)

\* the targets of the references of a file that name members of a unit, in order
MemberTargets(path, unit) ==
  LET found == matchAll(snapshot[path])
      targets == [k \in DOMAIN found |-> Target(found[k].text, path)]
  IN SelectSeq(targets, LAMBDA t : t \in unit)

\* some event of kind op for the unit of the path stands before position k
Earlier(op, path, k) ==
  \E j \in 1..(k - 1) :
    log[j].op = op /\ (log[j].path = path \/ (op = "digest" /\ path \in log[j].unit))

(***************************************************************************)
(* C20: two-phase protocol inside processLoop: (1) what Phase A returns    *)
(* for a member has an identifier after exactly the references to assets   *)
(* outside the unit, and the references to members are the ones left in    *)
(* its list; (2) the unit checksum is assigned only when Phase A has       *)
(* returned for every member; (3) references to members are rewritten only *)
(* after that, with the checksum assigned; (4) no member is written before *)
(* the checksum is assigned.                                               *)
(***************************************************************************)
C20_TwoPhaseOrder ==
  /\ pc \in {"phaseA", "phaseB"} =>
       \A m \in DOMAIN contents :
         /\ contents[m] = ExpectedOutside(snapshot[m], m, smallestLoop)
         /\ m \notin Range(written) =>
              [k \in DOMAIN referenceMap[m] |-> referenceMap[m][k].path]
                = MemberTargets(m, smallestLoop)
  /\ pc = "phaseA" =>
       \A m \in smallestLoop :
         /\ m \notin DOMAIN hashCache
         /\ files[m] = snapshot[m]
         /\ ~LogHas("write", m)
  /\ pc = "phaseB" =>
       /\ DOMAIN contents = smallestLoop
       /\ tasks = <<>>
       /\ \A m \in smallestLoop : m \in DOMAIN hashCache /\ hashCache[m] # Null
  /\ \A k \in DOMAIN log :
       /\ log[k].op = "digest" => \A m \in log[k].unit : Earlier("phaseA", m, k)
       /\ log[k].op = "write" => Earlier("digest", log[k].path, k)
  /\ \A m \in Indexed :
       LogHas("write", m) => files[m] = Expected(snapshot[m], m)

C20_Witness ==
  /\ pc = "phaseB"
  /\ smallestLoop = {PathA, PathB}
  /\ written = <<PathA>>
  /\ contents[PathA] # snapshot[PathA]
  /\ files[PathA] # contents[PathA]
  /\ files[PathB] = snapshot[PathB]
  /\ referenceMap[PathB] # <<>>

\* processLoop has assigned the checksum of the unit of the path
Digested(path) == \E k \in DOMAIN log : log[k].op = "digest" /\ path \in log[k].unit

(***************************************************************************)
(* C21: no stale checksum: no call of hashFileWithCache for an indexed     *)
(* path starts hashFile, that is, every such call finds the entry that     *)
(* processLoop set for the path; and the identifier that stands after a    *)
(* reference to an indexed file is the checksum processLoop assigned to    *)
(* it, never the checksum of the content the file had on disk before it    *)
(* was rewritten.                                                          *)
(***************************************************************************)
C21_NoStaleChecksum ==
  /\ \A k \in DOMAIN requests :
       requests[k].path \in Indexed =>
         /\ ~requests[k].started
         /\ Digested(requests[k].path)
         /\ requests[k].hash = hashCache[requests[k].path]
  /\ \A p \in Indexed :
       LogHas("write", p) =>
         \A token \in Range(Tokens(files[p])) :
           LET t == TokenTarget(files[p], token, p)
           IN t \in Indexed =>
                /\ Digested(t)
                /\ FollowedBy(files[p], TokenEnd(token),
                              Str(<<"?">>) \o param \o Str(<<"=">>) \o hashCache[t])
                /\ hashCache[t] # hashFile(t, snapshot)

C21_Witness ==
  /\ pc = "done"
  /\ files[PathB] # snapshot[PathB]
  /\ PathB \notin UnitOf(PathA)
  /\ Len(RequestsOf(PathB)) >= 1
  /\ \E token \in Range(Tokens(files[PathA])) : TokenTarget(files[PathA], token, PathA) = PathB

\* the file references itself and no other indexed file
SelfOnly(path) == Targets(path) \cap Indexed = {path}

(***************************************************************************)
(* C22: self-reference: an indexed file whose only indexed dependency is   *)
(* itself has, like a leaf, the dependency set that holds just the file    *)
(* and is handed to processLoop as a unit of size 1; Phase A skips its     *)
(* self-reference, the checksum is assigned while the file still is as it  *)
(* was on disk, and Phase B then puts the file's own identifier after the  *)
(* self-reference.                                                         *)
(***************************************************************************)
C22_SelfReference ==
  \A p \in Indexed :
    SelfOnly(p) =>
      /\ p \in DOMAIN dependencyMap => dependencyMap[p] = {p}
      /\ UnitOf(p) \subseteq {p}
      /\ (pc \in {"phaseA", "phaseB"} /\ p \in smallestLoop) =>
           /\ smallestLoop = {p}
           /\ p \in DOMAIN contents =>
                contents[p] = ExpectedOutside(snapshot[p], p, {p})
           /\ ~LogHas("write", p) => files[p] = snapshot[p]
      /\ \A k \in EventsAt("write", p) : Earlier("digest", p, k)
      /\ LogHas("write", p) =>
           \A token \in Range(Tokens(files[p])) :
             TokenTarget(files[p], token, p) = p =>
               FollowedBy(files[p], TokenEnd(token),
                          Str(<<"?">>) \o param \o Str(<<"=">>) \o hashCache[p])
      /\ pc = "done" => LogHas("write", p)

C22_Witness ==
  /\ pc = "done"
  /\ SelfOnly(PathA)
  /\ Targets(PathA) = {PathA, PathS}
  /\ UnitOf(PathA) = {PathA}
  /\ LogHas("write", PathA)
  /\ Len(HashRunsFrom(files[PathA], 1, <<>>)) = 2

RECURSIVE RunAt(_, _)
RunAt(content, from) ==
  IF from > Len(content) \/ content[from].c # "#" THEN <<>>
  ELSE <<content[from]>> \o RunAt(content, from + 1)

\* the identifiers that stand after the references to target in a content of path
IdentifiersFor(target, content, path) ==
  LET tokens == Tokens(content)
  IN {RunAt(content, TokenEnd(tokens[k]) + Len(param) + 3) :
        k \in {j \in DOMAIN tokens :
                 /\ TokenTarget(content, tokens[j], path) = target
                 /\ IdentifierAfter(content, TokenEnd(tokens[j]))}}

\* the identifiers given to the references to target so far: in what Phase A
\* returned and in the files
GivenTo(target) ==
  UNION ({IdentifiersFor(target, files[p], p) : p \in Indexed \cap DOMAIN files}
           \cup {IdentifiersFor(target, contents[m], m) : m \in DOMAIN contents})

\* no step changes or drops an entry of the cache
EntriesKept ==
  \A p \in DOMAIN hashCache : p \in DOMAIN hashCache' /\ hashCache'[p] = hashCache[p]

(***************************************************************************)
(* C24: consistent identifier per target: all rewritten references to one  *)
(* target, in whichever file and phase, carry one identifier, the entry of *)
(* the cache for the target; and an entry of the cache, once set (so also  *)
(* once used for a rewrite), never changes.                                *)
(***************************************************************************)
C24_ConsistentIdentifier ==
  /\ [](\A t \in assetIndex :
          GivenTo(t) # {} => (t \in DOMAIN hashCache /\ GivenTo(t) = {hashCache[t]}))
  /\ [][EntriesKept]_vars

C24_Witness ==
  /\ pc = "done"
  /\ \E p, q \in Indexed, t \in Indexed :
       /\ p # q
       /\ t \in UnitOf(p)
       /\ t \notin UnitOf(q)
       /\ IdentifiersFor(t, files[p], p) # {}
       /\ IdentifiersFor(t, files[q], q) # {}
       /\ \E s \in DOMAIN hashCache \ Indexed : hashCache[s] # Null /\ GivenTo(s) # {}

\* a step changes, creates or deletes only files of the unit being written
WritesInUnit ==
  \A p \in DOMAIN files \cup DOMAIN files' :
    (p \notin DOMAIN files \/ p \notin DOMAIN files' \/ files'[p] # files[p]) =>
      (pc = "phaseB" /\ p \in smallestLoop)

\* every recorded reference of the file ends where a reference to the same
\* asset ends in the content the file holds now
OffsetsPoint(path) ==
  \A k \in DOMAIN referenceMap[path] :
    \E token \in Range(Tokens(files[path])) :
      /\ TokenEnd(token) = referenceMap[path][k].endIndex
      /\ TokenTarget(files[path], token, path) = referenceMap[path][k].path

(***************************************************************************)
(* C25: writes are confined to the unit being finalized: a step of         *)
(* processLoop changes only files of its unit, so a file that has been     *)
(* scanned and not yet re-read by Phase A holds the content that was       *)
(* scanned, and its recorded end offsets are the ends of its references.   *)
(***************************************************************************)
C25_WritesConfined ==
  /\ [](\A p \in DOMAIN referenceMap :
          ~LogHas("read", p) => (files[p] = snapshot[p] /\ OffsetsPoint(p)))
  /\ [][WritesInUnit]_vars

C25_Witness ==
  /\ pc = "phaseA"
  /\ \E p \in smallestLoop, q \in Indexed :
       /\ ~LogHas("read", p)
       /\ Len(referenceMap[p]) >= 2
       /\ q \in Targets(p)
       /\ LogHas("write", q)
       /\ files[q] # snapshot[q]

\* the content the transform of mod.ts is to return for the matches from the
\* k-th on: each match, then its insertion, then the text up to the next
\* match; a "?" right after the match is kept in front of the insertion
RECURSIVE TransformFrom(_, _, _, _, _)
TransformFrom(content, matches, k, page, disk) ==
  IF k > Len(matches) THEN <<>>
  ELSE LET end == matches[k].index + Len(matches[k].text)
           next == IF k = Len(matches) THEN Len(content) ELSE matches[k + 1].index
           gap == SubSeq(content, end + 1, next)
           id == checksumOfFile(defaultResolvePath(matches[k].text, page), disk)
           merged ==
             IF id = Null THEN gap
             ELSE IF gap # <<>> /\ Head(gap).c = "?"
             THEN Str(<<"?">>) \o param \o Str(<<"=">>) \o id \o Str(<<"&">>) \o Tail(gap)
             ELSE Str(<<"?">>) \o param \o Str(<<"=">>) \o id \o gap
       IN matches[k].text \o merged \o TransformFrom(content, matches, k + 1, page, disk)

ExpectedTransform(content, page, disk) ==
  LET matches == AssetMatchAllFrom(content, 1)
  IN IF matches = <<>> THEN content
     ELSE SubSeq(content, 1, matches[1].index)
            \o TransformFrom(content, matches, 1, page, disk)

(***************************************************************************)
(* C26: the transform of mod.ts returns the content with, for every        *)
(* matched reference whose checksum is not null, param=checksum& right     *)
(* after the "?" that immediately follows the reference, or ?param=checksum*)
(* at the end of the reference when no "?" follows it; every insertion     *)
(* stands at the original end of its reference and references whose        *)
(* checksum is null are unchanged.                                         *)
(***************************************************************************)
C26_TransformInsertion ==
  (pc = "done" /\ LogHas("transform", tasks.page.outputPath) /\ IsProcessed(tasks.page)) =>
    contents = ExpectedTransform(tasks.content, tasks.page, files)

(***************************************************************************)
(* C27: structural invariant at the head of every iteration of the main    *)
(* loop: the keys of dependencyMap and of referenceMap are the members of  *)
(* fileIndex, every dependency set holds its own key, and every element of *)
(* every dependency set is a member of fileIndex.                          *)
(***************************************************************************)
C27_LoopHead ==
  pc = "loop" =>
    /\ DOMAIN dependencyMap = fileIndex
    /\ DOMAIN referenceMap = fileIndex
    /\ \A p \in DOMAIN dependencyMap :
         /\ p \in dependencyMap[p]
         /\ dependencyMap[p] \subseteq fileIndex

C27_Witness ==
  /\ pc = "loop"
  /\ \E p \in fileIndex, q \in Indexed \ fileIndex :
       /\ q \in Targets(p)
       /\ Removed(q)
       /\ Cardinality(dependencyMap[p]) >= 2

====
